---- MODULE Spec2Model ----
(***************************************************************************)
(* Model of the Shilp Python SDK: the query-expression model (models.py),  *)
(* the HTTP client (client.py) and the discovery client                    *)
(* (discovery_client.py).  Every public operation is one action; the       *)
(* transport session answers each request with a response chosen by the    *)
(* environment.                                                            *)
(***************************************************************************)
EXTENDS Integers, Sequences, FiniteSets, TLC

VARIABLES
    client,     \* Client: base_url, timeout, session
    dclient,    \* DiscoveryClient: base_url, timeout, session
    fexpr,      \* the FilterExpression object under validation
    sexpr,      \* the SortExpression object under validation
    calls,      \* the session calls issued by the last operation, in order
    last,       \* the last operation: its name, arguments and outcome
    delivered,  \* the lines the last stream_ingest_stats call gave its callback
    running,    \* a stream_ingest_stats call in progress: its position and its connection
    oplog,      \* the Shilp server's oplog service state
    registry    \* the discovery server's registry of one account

vars == <<client, dclient, fexpr, sexpr, calls, last, delivered, running, oplog, registry>>

(***************************************************************************)
(* Bounds of the model.                                                    *)
(***************************************************************************)
MaxLsn == 2         \* the oplog of a collection holds at most MaxLsn entries
MaxValues == 1      \* a filter's values list holds at most MaxValues items
MaxLines == 3       \* an event stream carries at most MaxLines lines
MaxExprs == 2       \* a compound filter or sort holds at most MaxExprs expressions
MaxItems == 2       \* a listing holds at most MaxItems collections or metadata entries

(***************************************************************************)
(* Python values.  None, integers and lists are tagged so that None, 0 and *)
(* [] stay distinct; Absent is an attribute the object does not have.      *)
(***************************************************************************)
None == [t |-> "none", v |-> 0]
PyInt(n) == [t |-> "int", v |-> n]
NoList == [t |-> "none", v |-> <<>>]
PyList(s) == [t |-> "list", v |-> s]
Absent == [t |-> "absent", v |-> <<>>]
EmptyDict == [k \in {} |-> 0]
\* d.get(key, default)
Get(d, key, default) == IF key \in DOMAIN d THEN d[key] ELSE default

\* Python truthiness of an optional list: None and [] are falsy.
Truthy(l) == l.t = "list" /\ Len(l.v) > 0

\* str(n) for an integer: its decimal digits, with a sign when negative.
Digit(d) == <<"0", "1", "2", "3", "4", "5", "6", "7", "8", "9">>[d + 1]
RECURSIVE StrNat(_)
StrNat(n) == IF n < 10 THEN <<Digit(n)>> ELSE Append(StrNat(n \div 10), Digit(n % 10))
str(n) == IF n < 0 THEN <<"-">> \o StrNat(0 - n) ELSE StrNat(n)

(***************************************************************************)
(* models.py: enumerations.                                                *)
(***************************************************************************)
INT64 == 0
FLOAT64 == 1
AttrType_STRING == 2
BOOL == 3
AttrType == {INT64, FLOAT64, AttrType_STRING, BOOL}

EQUALS == 0
NOT_EQUALS == 1
GREATER_THAN == 2
GREATER_THAN_OR_EQUAL == 3
LESS_THAN == 4
LESS_THAN_OR_EQUAL == 5
FilterOp_IN == 6
FilterOp_NOT_IN == 7
FilterOp == {EQUALS, NOT_EQUALS, GREATER_THAN, GREATER_THAN_OR_EQUAL,
             LESS_THAN, LESS_THAN_OR_EQUAL, FilterOp_IN, FilterOp_NOT_IN}

ASCENDING == 0
DESCENDING == 1
SortOrder == {ASCENDING, DESCENDING}

READ_REPLICA == 0
WRITE_REPLICA == 1
SINGLE_NODE == 2
ReplicaType == {READ_REPLICA, WRITE_REPLICA, SINGLE_NODE}

SyncStatus == {"ready", "syncing"}

(***************************************************************************)
(* Outcomes of an operation: a returned value or a raised exception.       *)
(***************************************************************************)
NoResponse == [status |-> 0, text |-> "", content |-> FALSE, json |-> EmptyDict,
               lines |-> <<>>]
Returned(value) == [kind |-> "ok", msg |-> "", response |-> NoResponse, value |-> value]
Raised(kind, msg) == [kind |-> kind, msg |-> msg, response |-> NoResponse, value |-> EmptyDict]
Ok_(outcome) == outcome.kind = "ok"
ValueError(msg) == Raised("ValueError", msg)
AttributeError(msg) == Raised("AttributeError", msg)
TypeError(msg) == Raised("TypeError", msg)
\* requests.HTTPError(..., response=response): the response object rides along.
HTTPError(response) ==
    [kind |-> "HTTPError", msg |-> "API error", response |-> response, value |-> EmptyDict]

(***************************************************************************)
(* models.py: FilterExpression and its validate().                         *)
(***************************************************************************)
Attributes == {"", "price"}
Scalars == {None, PyInt(0), PyInt(5)}
ValueLists == {NoList} \cup {PyList(s) : s \in UNION {[1..n -> {PyInt(0), PyInt(5)}] : n \in 0..MaxValues}}

FilterExpression(attribute, op, value, values) ==
    [attribute |-> attribute, op |-> op, value |-> value, values |-> values]

FilterExpressions ==
    {FilterExpression(a, o, x, xs) : a \in Attributes, o \in FilterOp,
                                      x \in Scalars, xs \in ValueLists}

\* The mutant drops the emptiness test of values.
FilterExpression_validate_no_values_check(f) ==
    IF f.attribute = "" THEN ValueError("attribute name cannot be empty")
    ELSE IF f.op \in {FilterOp_IN, FilterOp_NOT_IN} THEN Returned(None)
    ELSE IF f.value = None THEN ValueError("value cannot be None for operation")
    ELSE Returned(None)

FilterExpression_validate(f) ==
    IF f.attribute = "" THEN ValueError("attribute name cannot be empty")
    ELSE IF f.op \in {FilterOp_IN, FilterOp_NOT_IN}
         THEN IF ~Truthy(f.values) \/ Len(f.values.v) = 0
              THEN ValueError("IN/NOT IN operations require at least one value")
              ELSE Returned(None)
    ELSE IF f.value = None THEN ValueError("value cannot be None for operation")
    ELSE Returned(None)

(***************************************************************************)
(* models.py: CompoundFilter, SortExpression, CompoundSort.                *)
(***************************************************************************)
CompoundFilter(and_filters) == [and_filters |-> and_filters]
SortExpression(attribute, order) == [attribute |-> attribute, order |-> order]
CompoundSort(sorts) == [sorts |-> sorts]

\* The orders a caller can give: the two members and an integer that is neither.
Orders == SortOrder \cup {2}

SortExpressions == {SortExpression(a, o) : a \in Attributes, o \in Orders}

\* The mutant accepts every order.
SortExpression_validate_any_order(s) ==
    IF s.attribute = "" THEN ValueError("sort attribute cannot be empty")
    ELSE Returned(None)

SortExpression_validate(s) ==
    IF s.attribute = "" THEN ValueError("sort attribute cannot be empty")
    ELSE IF s.order \notin {ASCENDING, DESCENDING} THEN ValueError("invalid sort order")
    ELSE Returned(None)

\* The mutant sends None for the values of an operator that takes one value.
CompoundFilter_to_dict_scalar_only(cf) ==
    IF Truthy(cf.and_filters)
    THEN "and" :> [i \in 1..Len(cf.and_filters.v) |->
                     [attribute |-> cf.and_filters.v[i].attribute,
                      op |-> cf.and_filters.v[i].op,
                      value |-> cf.and_filters.v[i].value,
                      values |-> IF cf.and_filters.v[i].op \in {FilterOp_IN, FilterOp_NOT_IN}
                                 THEN cf.and_filters.v[i].values ELSE NoList]]
    ELSE EmptyDict

\* The mutant leaves out the keys that hold None.
CompoundFilter_to_dict_omit_none(cf) ==
    IF Truthy(cf.and_filters)
    THEN "and" :> [i \in 1..Len(cf.and_filters.v) |->
                     [attribute |-> cf.and_filters.v[i].attribute,
                      op |-> cf.and_filters.v[i].op]
                     @@ (IF cf.and_filters.v[i].value # None
                         THEN "value" :> cf.and_filters.v[i].value ELSE EmptyDict)
                     @@ (IF cf.and_filters.v[i].values # NoList
                         THEN "values" :> cf.and_filters.v[i].values ELSE EmptyDict)]
    ELSE EmptyDict

\* The mutant gives an empty "and" list for a filter without expressions.
CompoundFilter_to_dict_empty_and(cf) ==
    "and" :> [i \in 1..Len(cf.and_filters.v) |->
                [attribute |-> cf.and_filters.v[i].attribute,
                 op |-> cf.and_filters.v[i].op,
                 value |-> cf.and_filters.v[i].value,
                 values |-> cf.and_filters.v[i].values]]

\* The mutant writes the operator that follows the expression's.
CompoundFilter_to_dict_next_op(cf) ==
    IF Truthy(cf.and_filters)
    THEN "and" :> [i \in 1..Len(cf.and_filters.v) |->
                     [attribute |-> cf.and_filters.v[i].attribute,
                      op |-> (cf.and_filters.v[i].op + 1) % 8,
                      value |-> cf.and_filters.v[i].value,
                      values |-> cf.and_filters.v[i].values]]
    ELSE EmptyDict

CompoundFilter_to_dict(cf) ==
    IF Truthy(cf.and_filters)
    THEN "and" :> [i \in 1..Len(cf.and_filters.v) |->
                     [attribute |-> cf.and_filters.v[i].attribute,
                      op |-> cf.and_filters.v[i].op,
                      value |-> cf.and_filters.v[i].value,
                      values |-> cf.and_filters.v[i].values]]
    ELSE EmptyDict

\* The mutant emits the sorts last to first.
CompoundSort_to_dict_reversed(cs) ==
    IF Truthy(cs.sorts)
    THEN "sorts" :> [i \in 1..Len(cs.sorts.v) |->
                       [attribute |-> cs.sorts.v[Len(cs.sorts.v) + 1 - i].attribute,
                        order |-> cs.sorts.v[Len(cs.sorts.v) + 1 - i].order]]
    ELSE EmptyDict

CompoundSort_to_dict(cs) ==
    IF Truthy(cs.sorts)
    THEN "sorts" :> [i \in 1..Len(cs.sorts.v) |->
                       [attribute |-> cs.sorts.v[i].attribute,
                        order |-> cs.sorts.v[i].order]]
    ELSE EmptyDict

\* FilterExpression(**entry) for each entry of the "and" list of a wire form, and
\* CompoundFilter of the result: the reading of a wire form back into the model.
CompoundFilter_from_dict(d) ==
    CompoundFilter(PyList(IF "and" \in DOMAIN d
                          THEN [i \in 1..Len(d["and"]) |->
                                  FilterExpression(d["and"][i]["attribute"], d["and"][i]["op"],
                                                   d["and"][i]["value"], d["and"][i]["values"])]
                          ELSE <<>>))

\* The expressions put into compound filters: well-formed with one value, with
\* a set of values, with both fields set, and ill-formed ones.
WireExpressions ==
    {FilterExpression("price", EQUALS, PyInt(5), NoList),
     FilterExpression("price", FilterOp_IN, None, PyList(<<PyInt(0)>>)),
     FilterExpression("price", LESS_THAN, PyInt(0), PyList(<<PyInt(5)>>)),
     FilterExpression("", EQUALS, PyInt(5), NoList),
     FilterExpression("price", GREATER_THAN, None, NoList),
     FilterExpression("price", FilterOp_NOT_IN, None, PyList(<<>>))}

\* The sequences of at most n members of S.
SeqsUpTo(S, n) == UNION {[1..k -> S] : k \in 0..n}

CompoundFilters ==
    {CompoundFilter(NoList)} \cup {CompoundFilter(PyList(s)) : s \in SeqsUpTo(WireExpressions, MaxExprs)}

CompoundSorts ==
    {CompoundSort(NoList)} \cup {CompoundSort(PyList(s)) : s \in SeqsUpTo(SortExpressions, MaxExprs)}

(***************************************************************************)
(* client.py / discovery_client.py: construction and the transport paths.  *)
(* A transport operator takes the response the session gives and returns   *)
(* the session calls it made and its outcome.                              *)
(***************************************************************************)
DefaultTimeout == 30

NoStr == [t |-> "none", s |-> ""]
PyStr(s) == [t |-> "str", s |-> s]
NoDict == [t |-> "none", d |-> EmptyDict]
PyDict(d) == [t |-> "dict", d |-> d]

\* base_url.rstrip("/"): a URL is its origin followed by the trailing pieces.
RECURSIVE rstrip(_)
rstrip(url) ==
    IF Len(url) > 0 /\ url[Len(url)] = "/" THEN rstrip(SubSeq(url, 1, Len(url) - 1)) ELSE url

\* urljoin(base_url, path) with an absolute path: the origin of the base, then the path.
urljoin(base_url, path) == [origin |-> base_url[1], path |-> path]

Client(base_url, timeout, session) ==
    [base_url |-> rstrip(base_url), timeout |-> timeout, session |-> session]

DiscoveryClient(base_url, timeout, session) ==
    [base_url |-> rstrip(base_url), timeout |-> timeout, session |-> session]

\* The (timeout, session) pairs a client is constructed with: the defaults, or a
\* caller's timeout and session.
ClientConfigs == {<<DefaultTimeout, "own">>, <<60, "supplied">>}

\* One call on the session: session.request / session.post / session.get.
SessionCall(session, fn, method, url, json, params, timeout, stream, files) ==
    [session |-> session, fn |-> fn, method |-> method, url |-> url, json |-> json,
     params |-> params, timeout |-> timeout, stream |-> stream, files |-> files]

Response(status, text, content, json, lines) ==
    [status |-> status, text |-> text, content |-> content, json |-> json, lines |-> lines]

\* The session call raised instead of giving a response (connection refused,
\* timeout): no response object exists.
ConnectionError == Response(0, "ConnectionError", FALSE, EmptyDict, <<>>)

\* What follows the session call: its exception propagates (nothing catches it),
\* or the code goes on with the response.
Session(response, outcome) ==
    IF response = ConnectionError THEN Raised("ConnectionError", "session") ELSE outcome

Result(cs, outcome) == [calls |-> cs, outcome |-> outcome]
Failed(outcome) == Result(<<>>, outcome)

\* The mutant lets status 400 through.
Client_request_above_400(c, method, path, json_data, params, response) ==
    Result(<<SessionCall(c.session, "request", method, urljoin(c.base_url, path), json_data,
                         params, c.timeout, FALSE, NoStr)>>,
           Session(response,
                   IF response.status > 400 THEN HTTPError(response)
                   ELSE Returned(IF response.content THEN response.json ELSE EmptyDict)))

\* The mutant sends the request again when the server failed or the session raised.
Client_request_retry_once(c, method, path, json_data, params, response) ==
    LET call == SessionCall(c.session, "request", method, urljoin(c.base_url, path), json_data,
                            params, c.timeout, FALSE, NoStr)
    IN  Result(IF response = ConnectionError \/ response.status >= 500
               THEN <<call, call>> ELSE <<call>>,
               Session(response,
                       IF response.status >= 400 THEN HTTPError(response)
                       ELSE Returned(IF response.content THEN response.json ELSE EmptyDict)))

Client_request(c, method, path, json_data, params, response) ==
    Result(<<SessionCall(c.session, "request", method, urljoin(c.base_url, path), json_data,
                         params, c.timeout, FALSE, NoStr)>>,
           Session(response,
                   IF response.status >= 400 THEN HTTPError(response)
                   ELSE Returned(IF response.content THEN response.json ELSE EmptyDict)))

Client_request_file_response(c, method, path, json_data, params, response) ==
    Result(<<SessionCall(c.session, "request", method, urljoin(c.base_url, path), json_data,
                         params, c.timeout, TRUE, NoStr)>>,
           Session(response,
                   IF response.status >= 400 THEN HTTPError(response)
                   ELSE Returned([raw |-> response.text])))

\* The mutant posts the file with the default timeout, whatever the client's is.
Client_upload_file_default_timeout(c, path, file_path, exists, response) ==
    IF ~exists THEN Failed(Raised("FileNotFoundError", file_path))
    ELSE Result(<<SessionCall(c.session, "post", "POST", urljoin(c.base_url, path), None,
                              None, DefaultTimeout, FALSE, PyStr(file_path))>>,
                Session(response,
                        IF response.status >= 400 THEN HTTPError(response)
                        ELSE Returned(IF response.content THEN response.json
                                      ELSE EmptyDict)))

\* open(file_path, 'rb') fails before the session is used when the file is missing.
Client_upload_file(c, path, file_path, exists, response) ==
    IF ~exists THEN Failed(Raised("FileNotFoundError", file_path))
    ELSE Result(<<SessionCall(c.session, "post", "POST", urljoin(c.base_url, path), None,
                              None, c.timeout, FALSE, PyStr(file_path))>>,
                Session(response,
                        IF response.status >= 400 THEN HTTPError(response)
                        ELSE Returned(IF response.content THEN response.json
                                      ELSE EmptyDict)))

DiscoveryClient_request(c, method, path, json_data, params, response) ==
    Result(<<SessionCall(c.session, "request", method, urljoin(c.base_url, path), json_data,
                         params, c.timeout, FALSE, NoStr)>>,
           Session(response,
                   IF response.status >= 400 THEN HTTPError(response)
                   ELSE Returned(IF response.content THEN response.json ELSE EmptyDict)))

\* D(**data) for a dataclass D: every required field given, no unknown keyword.
Dataclass(name, required, optional, data) ==
    IF required \subseteq DOMAIN data /\ DOMAIN data \subseteq (required \cup optional)
    THEN Returned([class |-> name, fields |-> data])
    ELSE TypeError(name)

\* "data = self._request(...); return D(**data)".
Decode(r, name, required, optional) ==
    IF r.outcome.kind = "ok"
    THEN Result(r.calls, Dataclass(name, required, optional, r.outcome.value))
    ELSE r

(***************************************************************************)
(* client.py: the operations of Client.                                    *)
(***************************************************************************)
NoObj == [t |-> "none", o |-> EmptyDict]
PyObj(o) == [t |-> "obj", o |-> o]

\* A key of a request dictionary that is set only under a condition.
Opt(cond, key, val) == IF cond THEN key :> val ELSE EmptyDict

SearchRequest(collection, query, vector_query, fields, limit, weights, max_distance, filters, sort) ==
    [collection |-> collection, query |-> query, vector_query |-> vector_query,
     fields |-> fields, limit |-> limit, weights |-> weights,
     max_distance |-> max_distance, filters |-> filters, sort |-> sort]

search_data_json(request) ==
    ("collection" :> request.collection) @@ ("query" :> request.query)
    @@ Opt(request.fields # NoList, "fields", request.fields)
    @@ Opt(request.limit # None, "limit", request.limit)
    @@ Opt(request.weights # NoDict, "weights", request.weights)
    @@ Opt(request.max_distance # None, "max_distance", request.max_distance)
    @@ Opt(request.filters # NoObj, "filters", CompoundFilter_to_dict(request.filters.o))
    @@ Opt(request.sort # NoObj, "sort", CompoundSort_to_dict(request.sort.o))
    @@ Opt(request.vector_query # NoList, "vector_query", request.vector_query)

\* The mutant sends the request before it validates.
search_data_validate_late(c, request, response) ==
    LET r == Client_request(c, "POST", <<"/api/data/v1/search">>,
                            ("collection" :> request.collection), None, response)
    IN  IF request.collection = "" THEN Result(r.calls, ValueError("collection name cannot be empty"))
        ELSE IF request.query = "" /\ ~Truthy(request.vector_query)
        THEN Result(r.calls, ValueError("both vector_query and query cannot be empty"))
        ELSE Decode(r, "SearchResponse", {"success", "data"}, {"message"})

\* The mutant tests only the collection.
search_data_no_query_check(c, request, response) ==
    IF request.collection = "" THEN Failed(ValueError("collection name cannot be empty"))
    ELSE IF request.vector_query = Absent
    THEN Failed(AttributeError("vector_query"))
    ELSE Decode(Client_request(c, "POST", <<"/api/data/v1/search">>,
                               search_data_json(request), None, response),
                "SearchResponse", {"success", "data"}, {"message"})

\* SearchRequest declares no vector_query field: reading the attribute of a request
\* that was not given one raises AttributeError (lines 492 and 511).
search_data(c, request, response) ==
    IF request.collection = "" THEN Failed(ValueError("collection name cannot be empty"))
    ELSE IF request.query = "" /\ request.vector_query = Absent
    THEN Failed(AttributeError("vector_query"))
    ELSE IF request.query = "" /\ ~Truthy(request.vector_query)
    THEN Failed(ValueError("both vector_query and query cannot be empty"))
    ELSE IF request.vector_query = Absent
    THEN Failed(AttributeError("vector_query"))
    ELSE Decode(Client_request(c, "POST", <<"/api/data/v1/search">>,
                               search_data_json(request), None, response),
                "SearchResponse", {"success", "data"}, {"message"})

FileReaderOptions(source, mongo_filter, skip, limit) ==
    [source |-> source, mongo_filter |-> mongo_filter, skip |-> skip, limit |-> limit]
\* FileReaderOptions(): every field at its default.
DefaultFileReaderOptions == FileReaderOptions(NoStr, NoDict, 0, 0)

\* json.dumps(d): the text of a dictionary.
json_dumps(d) == [t |-> "json", d |-> d]

read_document_params(path, options) ==
    ("path" :> path)
    @@ Opt(options.source.t = "str" /\ options.source.s # "", "source", options.source.s)
    @@ Opt(options.limit > 0, "rows", str(options.limit))
    @@ Opt(options.skip > 0, "skip", str(options.skip))
    @@ Opt(options.source = PyStr("mongodb") /\ options.mongo_filter.t = "dict"
             /\ DOMAIN options.mongo_filter.d # {},
           "mongo_filter", json_dumps(options.mongo_filter.d))

\* The mutant tests only the path before sending.
read_document_path_only(c, path, options, response) ==
    LET opts == IF options = NoObj THEN DefaultFileReaderOptions ELSE options.o
    IN  IF path = "" THEN Failed(ValueError("path cannot be empty"))
        ELSE LET r == Client_request(c, "GET", <<"/api/data/v1/storage/read">>, None,
                                     read_document_params(path, opts), response)
             IN  IF opts.limit < 0 THEN Result(r.calls, ValueError("limit cannot be negative"))
                 ELSE IF opts.skip < 0 THEN Result(r.calls, ValueError("skip cannot be negative"))
                 ELSE Decode(r, "ReadDocumentResponse", {"success", "message", "data"}, {})

\* The mutant tests skip before limit.
read_document_skip_first(c, path, options, response) ==
    LET opts == IF options = NoObj THEN DefaultFileReaderOptions ELSE options.o
    IN  IF path = "" THEN Failed(ValueError("path cannot be empty"))
        ELSE IF opts.skip < 0 THEN Failed(ValueError("skip cannot be negative"))
        ELSE IF opts.limit < 0 THEN Failed(ValueError("limit cannot be negative"))
        ELSE Decode(Client_request(c, "GET", <<"/api/data/v1/storage/read">>, None,
                                   read_document_params(path, opts), response),
                    "ReadDocumentResponse", {"success", "message", "data"}, {})

read_document(c, path, options, response) ==
    LET opts == IF options = NoObj THEN DefaultFileReaderOptions ELSE options.o
    IN  IF path = "" THEN Failed(ValueError("path cannot be empty"))
        ELSE IF opts.limit < 0 THEN Failed(ValueError("limit cannot be negative"))
        ELSE IF opts.skip < 0 THEN Failed(ValueError("skip cannot be negative"))
        ELSE Decode(Client_request(c, "GET", <<"/api/data/v1/storage/read">>, None,
                                   read_document_params(path, opts), response),
                    "ReadDocumentResponse", {"success", "message", "data"}, {})

\* params = {}; "if path:" and "if source:" add the two keys.
list_storage(c, path, source, response) ==
    Decode(Client_request(c, "GET", <<"/api/data/v1/storage/list">>, None,
                          Opt(path # "", "path", path)
                          @@ Opt(source.t = "str" /\ source.s # "", "source", source.s),
                          response),
           "ListStorageResponse", {"success", "message", "data"}, {})

health_check(c, response) ==
    Decode(Client_request(c, "GET", <<"/health">>, None, None, response),
           "HealthResponse", {"success", "version"}, {})

export_collection(c, name, response) ==
    Client_request_file_response(c, "POST", <<"/api/collections/v1/", name, "/export">>,
                                 None, None, response)

upload_data_file(c, file_path, exists, response) ==
    Decode(Client_upload_file(c, <<"/api/data/v1/storage/upload">>, file_path, exists, response),
           "GenericResponse", {"success", "message"}, {})

\* line.decode('utf-8') of a received line.
decode(line) == line.s

\* iter_lines() then "if line: callback(line.decode('utf-8'))".
RECURSIVE DeliverLines(_)
DeliverLines(lines) ==
    IF lines = <<>> THEN <<>>
    ELSE IF Head(lines).s # "" THEN <<decode(Head(lines))>> \o DeliverLines(Tail(lines))
    ELSE DeliverLines(Tail(lines))

\* Returns the session call, the outcome and the callback invocations.
stream_ingest_stats(c, collection, response) ==
    LET call == SessionCall(c.session, "get", "GET",
                            urljoin(c.base_url,
                                    <<"/api/data/v1/ingest/stats?collection=", collection>>),
                            None, None, c.timeout, TRUE, NoStr)
    IN  IF response = ConnectionError
        THEN [calls |-> <<call>>, outcome |-> Session(response, Returned(None)),
              events |-> <<>>]
        ELSE IF response.status >= 400
        THEN [calls |-> <<call>>, outcome |-> HTTPError(response), events |-> <<>>]
        ELSE [calls |-> <<call>>, outcome |-> Returned(None),
              events |-> DeliverLines(response.lines)]

\* The mutant hands every line to the callback, the empty ones too.
stream_ingest_stats_line_unfiltered(events, line) == Append(events, decode(line))

\* One turn of "for line in response.iter_lines()": "if line: callback(line.decode('utf-8'))".
stream_ingest_stats_line(events, line) ==
    IF line.s # "" THEN Append(events, decode(line)) ELSE events

\* No stream_ingest_stats call in progress.
NoStream ==
    [pc |-> "idle", collection |-> "", calls |-> <<>>, conn |-> "none", arrived |-> <<>>,
     taken |-> 0, events |-> <<>>, cut |-> 0, outcome |-> Returned(None)]

(***************************************************************************)
(* client.py: collections and records.                                     *)
(***************************************************************************)
DOES_NOT_EXIST == -1
FILE == 1
S3 == 2
StorageBackendType == {DOES_NOT_EXIST, FILE, S3}

\* An attribute the dataclass does not declare and the caller did not set.
NoAttr == [t |-> "absent", b |-> FALSE]
PyBool(b) == [t |-> "bool", b |-> b]

AddCollectionRequest(name, no_reference_storage, has_metadata_storage, storage_type, reference_storage_type, enable_pq) ==
    [name |-> name, no_reference_storage |-> no_reference_storage,
     has_metadata_storage |-> has_metadata_storage, storage_type |-> storage_type,
     reference_storage_type |-> reference_storage_type, enable_pq |-> enable_pq]

add_collection_json(request) ==
    [name |-> request.name, no_reference_storage |-> request.no_reference_storage,
     has_metadata_storage |-> request.has_metadata_storage]
    @@ Opt(request.storage_type # None, "storage_type", request.storage_type)
    @@ Opt(request.reference_storage_type # None, "reference_storage_type",
           request.reference_storage_type)
    @@ Opt(request.enable_pq.b, "enable_pq", request.enable_pq)

\* AddCollectionRequest declares no enable_pq field: reading it on a request that
\* was not given one raises AttributeError (line 240), before the request is sent.
add_collection(c, request, response) ==
    IF request.enable_pq = NoAttr THEN Failed(AttributeError("enable_pq"))
    ELSE Decode(Client_request(c, "POST", <<"/api/collections/v1/">>,
                               add_collection_json(request), None, response),
                "GenericResponse", {"success", "message"}, {})

InsertRecordRequest(collection, record, expiry, id, metadata_fields, embedding_provider, fields, keyword_fields, model) ==
    [collection |-> collection, record |-> record, expiry |-> expiry, id |-> id,
     metadata_fields |-> metadata_fields, embedding_provider |-> embedding_provider,
     fields |-> fields, keyword_fields |-> keyword_fields, model |-> model]

insert_record(c, request, response) ==
    Decode(Client_request(c, "POST", <<"/api/collections/v1/record">>,
                          [collection |-> request.collection, record |-> request.record]
                          @@ Opt(request.expiry # None, "expiry", request.expiry)
                          @@ Opt(request.id # NoStr, "id", request.id)
                          @@ Opt(request.metadata_fields # NoDict, "metadata_fields",
                                 request.metadata_fields)
                          @@ Opt(request.embedding_provider # NoStr, "embedding_provider",
                                 request.embedding_provider)
                          @@ Opt(request.fields # NoList, "fields", request.fields)
                          @@ Opt(request.keyword_fields # NoList, "keyword_fields",
                                 request.keyword_fields)
                          @@ Opt(request.model # NoStr, "model", request.model),
                          None, response),
           "InsertRecordResponse", {"success", "message"}, {"record", "remaining_records"})

\* The optional fields of an IngestRequest, in the order ingest_data reads them.
IngestOptional ==
    <<"file_path", "source_type", "database_name", "mongo_collection", "query",
      "mongo_fetch_batch_size", "fields", "keyword_fields", "metadata_fields", "id_field",
      "expiry_field", "embedding_provider", "embedding_model", "ingestion_batch_size">>

\* "if request.k is not None: json_data[k] = request.k" for each optional field k.
ingest_data_json(request) ==
    LET set == {IngestOptional[i] : i \in {j \in 1..Len(IngestOptional) :
                                             request[IngestOptional[j]].t # "none"}}
    IN  [k \in {"collection_name"} \cup set |-> request[k]]

ingest_data(c, request, response) ==
    Decode(Client_request(c, "POST", <<"/api/data/v1/ingest">>, ingest_data_json(request),
                          None, response),
           "IngestResponse", {"success", "message"}, {"details"})

\* StorageBackendType(value): the member with that value, or ValueError.
\* The mutant takes an unknown value for FILE.
StorageBackendType_of_coercing(value) ==
    IF value \in StorageBackendType THEN Returned(value) ELSE Returned(FILE)

StorageBackendType_of(value) ==
    IF value \in StorageBackendType THEN Returned(value)
    ELSE ValueError("is not a valid StorageBackendType")

KeyError(key) == Raised("KeyError", key)

\* Collection(name=c['name'], ..., is_pq_enabled=c.get('is_pq_enabled', False)): the
\* arguments are evaluated in order, then the constructor is called with a
\* keyword, is_pq_enabled, that Collection does not declare.
list_collections_item(c) ==
    IF ~({"name", "is_loaded", "fields", "searchable_fields"} \subseteq DOMAIN c)
    THEN KeyError("collection")
    ELSE IF ~Ok_(StorageBackendType_of(Get(c, "storage_type", 0)))
    THEN StorageBackendType_of(Get(c, "storage_type", 0))
    ELSE IF ~Ok_(StorageBackendType_of(Get(c, "reference_storage_type", 0)))
    THEN StorageBackendType_of(Get(c, "reference_storage_type", 0))
    ELSE TypeError("Collection")

\* MetadataSupportInfo(support_metadata=m['support_metadata'], name=m['name'],
\*                     type=StorageBackendType(m['type']), is_default=m['is_default'])
list_collections_info(m) ==
    IF ~({"support_metadata", "name", "type"} \subseteq DOMAIN m) THEN KeyError("metadata_info")
    ELSE IF ~Ok_(StorageBackendType_of(m["type"])) THEN StorageBackendType_of(m["type"])
    ELSE IF "is_default" \notin DOMAIN m THEN KeyError("is_default")
    ELSE Returned([class |-> "MetadataSupportInfo",
                   fields |-> [support_metadata |-> m["support_metadata"], name |-> m["name"],
                               type |-> StorageBackendType_of(m["type"]).value,
                               is_default |-> m["is_default"]]])

\* The outcome of a list comprehension: the first failure, or the converted list.
Comprehension(outcomes) ==
    IF \E i \in 1..Len(outcomes) : ~Ok_(outcomes[i])
    THEN outcomes[CHOOSE i \in 1..Len(outcomes) :
                     /\ ~Ok_(outcomes[i])
                     /\ \A j \in 1..(i - 1) : Ok_(outcomes[j])]
    ELSE Returned([i \in 1..Len(outcomes) |-> outcomes[i].value])

list_collections(c, response) ==
    LET r == Client_request(c, "GET", <<"/api/collections/v1/">>, None, None, response)
        data == r.outcome.value
        items == IF "data" \in DOMAIN data
                 THEN Comprehension([i \in 1..Len(data["data"]) |->
                                       list_collections_item(data["data"][i])])
                 ELSE Returned(<<>>)
        infos == IF "metadata_info" \in DOMAIN data /\ data["metadata_info"] # <<>>
                 THEN Comprehension([i \in 1..Len(data["metadata_info"]) |->
                                       list_collections_info(data["metadata_info"][i])])
                 ELSE Returned(<<>>)
        converted == [k \in DOMAIN data |->
                        IF k = "data" THEN items.value
                        ELSE IF k = "metadata_info" THEN infos.value
                        ELSE data[k]]
    IN  IF ~Ok_(r.outcome) THEN r
        ELSE IF ~Ok_(items) THEN Result(r.calls, items)
        ELSE IF ~Ok_(infos) THEN Result(r.calls, infos)
        ELSE Result(r.calls, Dataclass("ListCollectionsResponse", {"success", "message", "data"},
                                       {"metadata_info"}, converted))

(***************************************************************************)
(* The inputs the operations are called with and the responses a session   *)
(* can give.                                                               *)
(***************************************************************************)
Collections == {"docs", "logs"}

\* The optional fields of a SearchRequest: none set, every one set, an empty filter,
\* a filter with an ill-formed expression, a sort with an ill-formed expression.
SearchOptions ==
    {[fields |-> NoList, limit |-> None, weights |-> NoDict, max_distance |-> None,
      filters |-> NoObj, sort |-> NoObj],
     [fields |-> PyList(<<"title">>), limit |-> PyInt(10), weights |-> PyDict("title" :> 2),
      max_distance |-> PyInt(1),
      filters |-> PyObj(CompoundFilter(PyList(<<FilterExpression("price", EQUALS, PyInt(5), NoList)>>))),
      sort |-> PyObj(CompoundSort(PyList(<<SortExpression("price", DESCENDING)>>)))],
     [fields |-> NoList, limit |-> PyInt(10), weights |-> NoDict, max_distance |-> None,
      filters |-> PyObj(CompoundFilter(PyList(<<>>))), sort |-> NoObj],
     [fields |-> NoList, limit |-> None, weights |-> NoDict, max_distance |-> None,
      filters |-> PyObj(CompoundFilter(PyList(<<FilterExpression("", EQUALS, None, NoList)>>))),
      sort |-> NoObj],
     [fields |-> NoList, limit |-> None, weights |-> NoDict, max_distance |-> None,
      filters |-> PyObj(CompoundFilter(PyList(<<FilterExpression("price", FilterOp_IN, None, PyList(<<>>))>>))),
      sort |-> PyObj(CompoundSort(PyList(<<SortExpression("price", 2)>>)))]}

SearchRequests ==
    {SearchRequest(c, q, vq, o.fields, o.limit, o.weights, o.max_distance, o.filters, o.sort) :
        c \in {"", "docs"}, q \in {"", "x"},
        vq \in {Absent, NoList, PyList(<<>>), PyList(<<1>>)},
        o \in SearchOptions}

ReaderOptions ==
    {NoObj} \cup
    {PyObj(FileReaderOptions(sm[1], sm[2], sk, li)) :
        sm \in {<<NoStr, NoDict>>, <<PyStr("mongodb"), PyDict("a" :> 1)>>},
        sk \in {-1, 0, 2}, li \in {-1, 0, 10}}

\* The raw text of a response.
Texts(status) == IF status >= 400 THEN {"", "Internal Server Error"} ELSE {"body"}

\* The responses a session can give when a well-formed body is one of bodies: each
\* body with status 200, one below 400 with another status, the failures with
\* their raw text, a success without a body, and the session raising.
SessionResponses(bodies) ==
    {Response(200, "body", TRUE, b, <<>>) : b \in bodies}
    \cup {Response(399, "body", TRUE, b, <<>>) : b \in {CHOOSE x \in bodies : TRUE}}
    \cup {Response(st, tx, tx # "", EmptyDict, <<>>) : st \in {400, 500}, tx \in Texts(400)}
    \cup {Response(200, "", FALSE, EmptyDict, <<>>), ConnectionError}

SearchBodies ==
    {[success |-> TRUE, data |-> <<>>],
     [success |-> TRUE, data |-> <<>>, message |-> "ok"],
     [success |-> FALSE, message |-> "no data"]}
GenericBodies == {[success |-> TRUE, message |-> "ok"], [success |-> TRUE]}
ReadBodies == {[success |-> TRUE, message |-> "ok", data |-> <<>>]}
HealthBodies == {[success |-> TRUE, version |-> "1.0.0"]}

AddCollectionRequests ==
    {AddCollectionRequest("docs", FALSE, hms, st, rst, epq) :
        hms \in BOOLEAN, st \in {None, PyInt(FILE)}, rst \in {None, PyInt(S3)},
        epq \in {NoAttr, PyBool(FALSE), PyBool(TRUE)}}

\* The optional fields of an InsertRecordRequest.
InsertOptional ==
    {"expiry", "id", "metadata_fields", "embedding_provider", "fields", "keyword_fields", "model"}

\* No optional field set, every one, each one alone, every one but one; the values
\* given include falsy ones (0, "", [], {}).
InsertRecordRequests ==
    {InsertRecordRequest("docs", [title |-> "a"],
                         IF "expiry" \in S THEN PyInt(0) ELSE None,
                         IF "id" \in S THEN PyStr("") ELSE NoStr,
                         IF "metadata_fields" \in S THEN PyDict(EmptyDict) ELSE NoDict,
                         IF "embedding_provider" \in S THEN PyStr("openai") ELSE NoStr,
                         IF "fields" \in S THEN PyList(<<>>) ELSE NoList,
                         IF "keyword_fields" \in S THEN PyList(<<"title">>) ELSE NoList,
                         IF "model" \in S THEN PyStr("m") ELSE NoStr) :
        S \in {{}, InsertOptional} \cup {{k} : k \in InsertOptional}
               \cup {InsertOptional \ {k} : k \in InsertOptional}}

\* The value an optional field of an IngestRequest has when it is set (given) or not.
IngestValue(k, given) ==
    IF k \in {"mongo_fetch_batch_size", "ingestion_batch_size"}
    THEN (IF given THEN PyInt(0) ELSE None)
    ELSE IF k \in {"fields", "keyword_fields"} THEN (IF given THEN PyList(<<>>) ELSE NoList)
    ELSE IF k \in {"query", "metadata_fields"}
    THEN (IF given THEN PyDict(EmptyDict) ELSE NoDict)
    ELSE (IF given THEN PyStr("") ELSE NoStr)

\* IngestRequest(collection_name="docs", k=... for each k of set)
IngestRequest(set) ==
    [k \in {"collection_name"} \cup {IngestOptional[i] : i \in 1..Len(IngestOptional)} |->
        IF k = "collection_name" THEN PyStr("docs") ELSE IngestValue(k, k \in set)]

\* No optional field set, every one set, each one alone.
IngestRequests ==
    {IngestRequest({}), IngestRequest({IngestOptional[i] : i \in 1..Len(IngestOptional)})}
    \cup {IngestRequest({IngestOptional[i]}) : i \in 1..Len(IngestOptional)}

InsertBodies ==
    {[success |-> TRUE, message |-> "ok"],
     [success |-> TRUE, message |-> "ok", remaining_records |-> 5]}

\* A collection of a listing: the required keys and whatever else the server sent.
Item(extra) ==
    [name |-> "docs", is_loaded |-> TRUE, fields |-> <<"title">>,
     searchable_fields |-> <<"title">>] @@ extra

Items ==
    {Item(EmptyDict),
     Item([storage_type |-> FILE, reference_storage_type |-> S3,
           has_metadata_enabled |-> FALSE, no_reference_storage |-> FALSE,
           is_pq_enabled |-> FALSE]),
     Item([storage_type |-> 3, reference_storage_type |-> FILE]),
     Item([storage_type |-> FILE, reference_storage_type |-> 0]),
     [name |-> "docs"]}

Info(type) == [support_metadata |-> TRUE, name |-> "file", type |-> type, is_default |-> TRUE]

Infos == {Info(t) : t \in StorageBackendType \cup {0, 3}}
         \cup {[support_metadata |-> TRUE, name |-> "file", type |-> FILE]}

\* The bodies of a listing: collections without metadata_info, metadata_info
\* without collections, both, and a body without data.
ListBodies ==
    {[success |-> TRUE, message |-> "ok", data |-> d] : d \in SeqsUpTo(Items, MaxItems)}
    \cup {[success |-> TRUE, message |-> "ok", data |-> <<>>, metadata_info |-> m] :
             m \in SeqsUpTo(Infos, MaxItems)}
    \cup {[success |-> TRUE, message |-> "ok", data |-> <<Item(EmptyDict)>>,
           metadata_info |-> <<Info(3)>>],
          [success |-> TRUE, message |-> "ok"]}

Bytes(s) == [t |-> "bytes", s |-> s]
LineSeqs == UNION {[1..n -> {Bytes(""), Bytes("ev1"), Bytes("ev2")}] : n \in 0..MaxLines}
StreamResponses ==
    {Response(st, "", TRUE, EmptyDict, ls) : st \in {200, 399}, ls \in LineSeqs}
    \cup {Response(st, tx, TRUE, EmptyDict, ls) : st \in {400, 500}, tx \in Texts(400),
                                                 ls \in {<<>>, <<Bytes("ev1")>>}}
    \cup {ConnectionError}

(***************************************************************************)
(* discovery_client.py: the operations of DiscoveryClient.                 *)
(***************************************************************************)

ReplicaFields == {"id", "address", "is_healthy", "is_syncing"}

\* [Replica(**r) for r in replicas]: fails when one construction fails.
ReplicasOk(replicas) ==
    \A i \in 1..Len(replicas) : Dataclass("Replica", ReplicaFields, {}, replicas[i]).kind = "ok"

get_shilp_stats(c, account_id, response) ==
    LET r == DiscoveryClient_request(c, "GET", <<"/api/v1/discovery/shilp/stats">>, None,
                                     ("account_id" :> account_id), response)
        data == r.outcome.value
        registry_data == Get(data, "registry", EmptyDict)
        write_replica == Dataclass("Replica", ReplicaFields, {},
                                   Get(registry_data, "write_replica", EmptyDict))
        read_replicas == Get(registry_data, "read_replicas", <<>>)
        proxy_data == Get(data, "proxy", EmptyDict)
    IN  IF r.outcome.kind # "ok" THEN r
        ELSE IF write_replica.kind # "ok" THEN Result(r.calls, TypeError("Replica"))
        ELSE IF ~ReplicasOk(read_replicas) THEN Result(r.calls, TypeError("Replica"))
        ELSE Result(r.calls,
                    Returned([class |-> "DiscoveryStats",
                              registry |-> [write_replica |-> write_replica.value.fields,
                                            read_replicas |-> read_replicas,
                                            available |-> Get(registry_data, "available", 0),
                                            total |-> Get(registry_data, "total", 0)],
                              proxy |-> [active_proxies |-> Get(proxy_data, "active_proxies", 0),
                                         targets |-> Get(proxy_data, "targets", <<>>)]]))

update_shilp_sync_status(c, account_id, address, status, response) ==
    Decode(DiscoveryClient_request(c, "PUT", <<"/api/v1/discovery/shilp/sync">>,
                                   [account_id |-> account_id, address |-> address,
                                    status |-> status],
                                   None, response),
           "GenericResponse", {"success", "message"}, {})

\* The mutant forgets that a single node also writes.
register_shilp_service_reads_only(c, account_id, address, service_id, replica_type, response) ==
    Decode(DiscoveryClient_request(c, "POST", <<"/api/v1/discovery/shilp/register">>,
                                   [account_id |-> account_id, address |-> address,
                                    id |-> service_id,
                                    is_read |-> (replica_type = READ_REPLICA
                                                 \/ replica_type = SINGLE_NODE),
                                    is_write |-> (replica_type = WRITE_REPLICA)],
                                   None, response),
           "GenericResponse", {"success", "message"}, {})

register_shilp_service(c, account_id, address, service_id, replica_type, response) ==
    Decode(DiscoveryClient_request(c, "POST", <<"/api/v1/discovery/shilp/register">>,
                                   [account_id |-> account_id, address |-> address,
                                    id |-> service_id,
                                    is_read |-> (replica_type = READ_REPLICA
                                                 \/ replica_type = SINGLE_NODE),
                                    is_write |-> (replica_type = WRITE_REPLICA
                                                  \/ replica_type = SINGLE_NODE)],
                                   None, response),
           "GenericResponse", {"success", "message"}, {})

unregister_shilp_service(c, account_id, address, service_id, replica_type, response) ==
    Decode(DiscoveryClient_request(c, "DELETE", <<"/api/v1/discovery/shilp/unregister">>,
                                   [account_id |-> account_id, address |-> address,
                                    id |-> service_id,
                                    is_read |-> (replica_type = READ_REPLICA
                                                 \/ replica_type = SINGLE_NODE),
                                    is_write |-> (replica_type = WRITE_REPLICA
                                                  \/ replica_type = SINGLE_NODE)],
                                   None, response),
           "GenericResponse", {"success", "message"}, {})

register_tei_service(c, account_id, address, service_id, response) ==
    Decode(DiscoveryClient_request(c, "POST", <<"/api/v1/discovery/tei/register">>,
                                   [account_id |-> account_id, address |-> address,
                                    id |-> service_id],
                                   None, response),
           "GenericResponse", {"success", "message"}, {})

(***************************************************************************)
(* The discovery service the DiscoveryClient talks to.  Its code is not    *)
(* part of the SDK: it is modelled from the registry contract (one write   *)
(* replica, an ordered set of read replicas, a sync gate per address).     *)
(***************************************************************************)
Addresses == {"10.0.0.1:3000", "10.0.0.2:3000"}
ServiceId(address) == IF address = "10.0.0.1:3000" THEN "shilp-1" ELSE "shilp-2"

EmptyRegistry == [write |-> "", reads |-> <<>>, syncing |-> {}, ids |-> EmptyDict]

Elems(seq) == {seq[i] : i \in 1..Len(seq)}
RECURSIVE Without(_, _)
Without(seq, x) ==
    IF seq = <<>> THEN <<>>
    ELSE IF Head(seq) = x THEN Without(Tail(seq), x)
    ELSE <<Head(seq)>> \o Without(Tail(seq), x)

Known(reg, address) == reg.write = address \/ address \in Elems(reg.reads)

ReplicaJson(reg, address) ==
    [id |-> reg.ids[address], address |-> address, is_healthy |-> TRUE,
     is_syncing |-> (address \in reg.syncing)]

\* The stats document: the write_replica key is left out when no write replica is set.
StatsJson(reg) ==
    [registry |->
        Opt(reg.write # "", "write_replica", ReplicaJson(reg, reg.write))
        @@ [read_replicas |-> [i \in 1..Len(reg.reads) |-> ReplicaJson(reg, reg.reads[i])],
            available |-> Cardinality((Elems(reg.reads) \cup ({reg.write} \ {""})) \ reg.syncing),
            total |-> Cardinality(Elems(reg.reads) \cup ({reg.write} \ {""}))],
     proxy |-> [active_proxies |-> 0, targets |-> <<>>]]

Ok(json) == Response(200, "body", TRUE, json, <<>>)
GenericOk == Ok([success |-> TRUE, message |-> "ok"])
NotFound == Response(404, "not found", TRUE, EmptyDict, <<>>)
BadRequest == Response(400, "bad request", TRUE, EmptyDict, <<>>)
Unavailable == Response(500, "Internal Server Error", TRUE, EmptyDict, <<>>)

Served(state, response) == [state |-> state, response |-> response]

DiscoveryRegister(reg, b) ==
    Served([write |-> IF b.is_write THEN b.address ELSE reg.write,
            reads |-> IF b.is_read /\ b.address \notin Elems(reg.reads)
                      THEN Append(reg.reads, b.address) ELSE reg.reads,
            syncing |-> reg.syncing,
            ids |-> IF b.is_read \/ b.is_write THEN (b.address :> b.id) @@ reg.ids
                    ELSE reg.ids],
           GenericOk)

DiscoveryUnregister(reg, b) ==
    IF ~Known(reg, b.address) THEN Served(reg, NotFound)
    ELSE LET write == IF b.is_write /\ reg.write = b.address THEN "" ELSE reg.write
             reads == IF b.is_read THEN Without(reg.reads, b.address) ELSE reg.reads
         IN  Served([write |-> write, reads |-> reads,
                     syncing |-> reg.syncing \cap (Elems(reads) \cup {write}),
                     ids |-> reg.ids],
                    GenericOk)

DiscoverySync(reg, b) ==
    IF ~Known(reg, b.address) THEN Served(reg, NotFound)
    ELSE IF b.status = "syncing"
    THEN Served([reg EXCEPT !.syncing = @ \cup {b.address}], GenericOk)
    ELSE IF b.status = "ready"
    THEN Served([reg EXCEPT !.syncing = @ \ {b.address}], GenericOk)
    ELSE Served(reg, BadRequest)

\* The service answers one session call.
DiscoveryServer(reg, call) ==
    IF call.method = "POST" /\ call.url.path = <<"/api/v1/discovery/shilp/register">>
    THEN DiscoveryRegister(reg, call.json)
    ELSE IF call.method = "DELETE" /\ call.url.path = <<"/api/v1/discovery/shilp/unregister">>
    THEN DiscoveryUnregister(reg, call.json)
    ELSE IF call.method = "PUT" /\ call.url.path = <<"/api/v1/discovery/shilp/sync">>
    THEN DiscoverySync(reg, call.json)
    ELSE IF call.method = "GET" /\ call.url.path = <<"/api/v1/discovery/shilp/stats">>
    THEN Served(reg, Ok(StatsJson(reg)))
    ELSE Served(reg, NotFound)

(***************************************************************************)
(* client.py: the oplog operations of Client.                              *)
(***************************************************************************)
\* The mutant asks from the start of the log, whatever after_lsn is.
get_oplog_entries_from_zero(c, collection, after_lsn, limit, response) ==
    Decode(Client_request(c, "GET", <<"/api/oplog/v1/">>, None,
                          ("after_lsn" :> str(0))
                          @@ Opt(collection # "", "collection", collection)
                          @@ Opt(limit > 0, "limit", str(limit)),
                          response),
           "GetOplogResponse", {"success", "message", "entries", "last_lsn", "count"}, {})

\* The mutant sends every limit that is not 0.
get_oplog_entries_any_limit(c, collection, after_lsn, limit, response) ==
    Decode(Client_request(c, "GET", <<"/api/oplog/v1/">>, None,
                          ("after_lsn" :> str(after_lsn))
                          @@ Opt(collection # "", "collection", collection)
                          @@ Opt(limit # 0, "limit", str(limit)),
                          response),
           "GetOplogResponse", {"success", "message", "entries", "last_lsn", "count"}, {})

get_oplog_entries(c, collection, after_lsn, limit, response) ==
    Decode(Client_request(c, "GET", <<"/api/oplog/v1/">>, None,
                          ("after_lsn" :> str(after_lsn))
                          @@ Opt(collection # "", "collection", collection)
                          @@ Opt(limit > 0, "limit", str(limit)),
                          response),
           "GetOplogResponse", {"success", "message", "entries", "last_lsn", "count"}, {})

\* The mutant keeps a floor of its own and raises below it without sending.
update_replica_lsn_checks_floor(c, collection, replica_id, lsn, response) ==
    IF lsn < 5 THEN Failed(Raised("InvalidLsnError", "lsn"))
    ELSE Decode(Client_request(c, "POST", <<"/api/oplog/v1/heartbeat">>,
                               [collection |-> collection, replica_id |-> replica_id,
                                lsn |-> lsn],
                               None, response),
                "UpdateReplicaLSNResponse", {"success", "message"}, {})

update_replica_lsn(c, collection, replica_id, lsn, response) ==
    Decode(Client_request(c, "POST", <<"/api/oplog/v1/heartbeat">>,
                          [collection |-> collection, replica_id |-> replica_id,
                           lsn |-> lsn],
                          None, response),
           "UpdateReplicaLSNResponse", {"success", "message"}, {})

\* The mutant posts the registration to the unregister endpoint.
register_replica_wrong_path(c, replica_id, response) ==
    Decode(Client_request(c, "POST", <<"/api/oplog/v1/unregister">>,
                          [replica_id |-> replica_id], None, response),
           "GenericResponse", {"success", "message"}, {})

register_replica(c, replica_id, response) ==
    Decode(Client_request(c, "POST", <<"/api/oplog/v1/register">>,
                          [replica_id |-> replica_id], None, response),
           "GenericResponse", {"success", "message"}, {})

unregister_replica(c, replica_id, response) ==
    Decode(Client_request(c, "POST", <<"/api/oplog/v1/unregister">>,
                          [replica_id |-> replica_id], None, response),
           "GenericResponse", {"success", "message"}, {})

get_oplog_status(c, collection, response) ==
    Decode(Client_request(c, "GET", <<"/api/oplog/v1/status">>, None,
                          ("collection" :> collection), response),
           "OplogStatusResponse",
           {"success", "message", "last_lsn", "retention_lsn", "replica_count"}, {})

(***************************************************************************)
(* The oplog service of the Shilp server.  Its code is not part of the     *)
(* SDK: it is modelled from the replication contract (entries after an     *)
(* LSN in ascending order, replica registration, heartbeats).              *)
(***************************************************************************)
Replicas == {"replica-1", "replica-2"}
\* The LSNs a replica reports in a heartbeat.
HeartbeatLsns == {3, 5}

EmptyOplog ==
    [last_lsn |-> [c \in Collections |-> 0],
     registered |-> {},
     acked |-> [p \in Collections \X Replicas |-> 0],
     high |-> [p \in Collections \X Replicas |-> 0]]

\* int(s) for the decimal text of an integer.
int(s) == CHOOSE n \in -9..99 : str(n) = s

Min(S) == CHOOSE x \in S : \A y \in S : x <= y
Max(S) == CHOOSE x \in S : \A y \in S : x >= y

EntryJson(collection, lsn) ==
    [lsn |-> lsn, collection |-> collection, doc_id |-> "doc", op_type |-> "insert"]

\* The entries of one collection after an LSN, oldest first, at most limit when limit > 0.
EntriesAfter(log, collection, after, limit) ==
    LET n == IF log.last_lsn[collection] > after THEN log.last_lsn[collection] - after ELSE 0
        m == IF limit > 0 /\ limit < n THEN limit ELSE n
    IN  [i \in 1..m |-> EntryJson(collection, after + i)]

OplogEntries(log, params) ==
    LET collection == Get(params, "collection", "")
        after == int(params.after_lsn)
        limit == int(Get(params, "limit", str(0)))
        entries == IF collection \in Collections
                   THEN EntriesAfter(log, collection, after, limit)
                   ELSE IF collection = ""
                   THEN EntriesAfter(log, "docs", after, limit)
                        \o EntriesAfter(log, "logs", after, limit)
                   ELSE <<>>
    IN  Served(log, Ok([success |-> TRUE, message |-> "ok", entries |-> entries,
                        last_lsn |-> IF collection \in Collections
                                     THEN log.last_lsn[collection]
                                     ELSE Max({log.last_lsn[c] : c \in Collections}),
                        count |-> Len(entries)]))

OplogStatus(log, params) ==
    IF params.collection \notin Collections THEN Served(log, NotFound)
    ELSE Served(log, Ok([success |-> TRUE, message |-> "ok",
                         last_lsn |-> log.last_lsn[params.collection],
                         retention_lsn |->
                             IF log.registered = {} THEN 0
                             ELSE Min({log.acked[<<params.collection, r>>] : r \in log.registered}),
                         replica_count |-> Cardinality(log.registered)]))

OplogRegister(log, b) ==
    IF b.replica_id \in log.registered THEN Served(log, GenericOk)
    ELSE Served([log EXCEPT !.registered = @ \cup {b.replica_id}], GenericOk)

OplogUnregister(log, b) ==
    IF b.replica_id \notin log.registered THEN Served(log, NotFound)
    ELSE Served([last_lsn |-> log.last_lsn,
                 registered |-> log.registered \ {b.replica_id},
                 acked |-> [p \in Collections \X Replicas |->
                              IF p[2] = b.replica_id THEN 0 ELSE log.acked[p]],
                 high |-> [p \in Collections \X Replicas |->
                              IF p[2] = b.replica_id THEN 0 ELSE log.high[p]]],
                GenericOk)

\* A heartbeat below the acknowledged LSN is refused by a strict service and
\* taken by a lenient one.
OplogHeartbeat(log, b, strict) ==
    LET p == <<b.collection, b.replica_id>>
    IN  IF b.replica_id \notin log.registered \/ b.collection \notin Collections
        THEN Served(log, NotFound)
        ELSE IF strict /\ b.lsn < log.acked[p] THEN Served(log, BadRequest)
        ELSE Served([log EXCEPT !.acked[p] = b.lsn,
                                !.high[p] = IF b.lsn > @ THEN b.lsn ELSE @],
                    GenericOk)

\* The service answers one session call.
OplogServer(log, call, strict) ==
    IF call.method = "GET" /\ call.url.path = <<"/api/oplog/v1/">>
    THEN OplogEntries(log, call.params)
    ELSE IF call.method = "GET" /\ call.url.path = <<"/api/oplog/v1/status">>
    THEN OplogStatus(log, call.params)
    ELSE IF call.method = "POST" /\ call.url.path = <<"/api/oplog/v1/register">>
    THEN OplogRegister(log, call.json)
    ELSE IF call.method = "POST" /\ call.url.path = <<"/api/oplog/v1/unregister">>
    THEN OplogUnregister(log, call.json)
    ELSE IF call.method = "POST" /\ call.url.path = <<"/api/oplog/v1/heartbeat">>
    THEN OplogHeartbeat(log, call.json, strict)
    ELSE Served(log, NotFound)

(***************************************************************************)
(* The state machine.                                                      *)
(***************************************************************************)
Init ==
    /\ \E cfg \in ClientConfigs :
          /\ client = Client(<<"http://localhost:3000", "/">>, cfg[1], cfg[2])
          /\ dclient = DiscoveryClient(<<"http://localhost:8500", "/">>, cfg[1], cfg[2])
    /\ fexpr = FilterExpression("price", EQUALS, PyInt(5), NoList)
    /\ sexpr = SortExpression("price", ASCENDING)
    /\ calls = <<>>
    /\ last = [op |-> "init", args |-> EmptyDict, outcome |-> Returned(None),
               resp |-> NoResponse]
    /\ delivered = <<>>
    /\ running = NoStream
    /\ oplog = EmptyOplog
    /\ registry = EmptyRegistry

\* An operation of a client ends: its calls, its outcome and the response the
\* session gave it (when it called the session) are recorded.
Finish(op, args, r, response) ==
    /\ calls' = r.calls
    /\ last' = [op |-> op, args |-> args, outcome |-> r.outcome,
                resp |-> IF r.calls = <<>> THEN NoResponse ELSE response]

\* FilterExpression(attribute, op, value, values): the dataclass constructor.
New_FilterExpression ==
    /\ \E f \in FilterExpressions :
          /\ fexpr' = f
          /\ Finish("FilterExpression", f, Failed(Returned(None)),
              NoResponse)
    /\ UNCHANGED <<client, dclient, running, sexpr, delivered, oplog, registry>>

\* fexpr.validate()
Call_FilterExpression_validate ==
    /\ Finish("FilterExpression.validate", fexpr, Failed(FilterExpression_validate(fexpr)),
              NoResponse)
    /\ UNCHANGED <<client, dclient, running, sexpr, fexpr, delivered, oplog, registry>>

\* SortExpression(attribute, order): the dataclass constructor.
New_SortExpression ==
    /\ \E s \in SortExpressions :
          /\ sexpr' = s
          /\ Finish("SortExpression", s, Failed(Returned(None)), NoResponse)
    /\ UNCHANGED <<client, dclient, running, fexpr, delivered, oplog, registry>>

\* sexpr.validate()
Call_SortExpression_validate ==
    /\ Finish("SortExpression.validate", sexpr, Failed(SortExpression_validate(sexpr)),
              NoResponse)
    /\ UNCHANGED <<client, dclient, running, sexpr, fexpr, delivered, oplog, registry>>

\* CompoundFilter(and_filters).to_dict()
Call_CompoundFilter_to_dict ==
    /\ \E cf \in CompoundFilters :
          Finish("CompoundFilter.to_dict", cf, Failed(Returned(CompoundFilter_to_dict(cf))),
                 NoResponse)
    /\ UNCHANGED <<client, dclient, running, sexpr, fexpr, delivered, oplog, registry>>

\* CompoundSort(sorts).to_dict()
Call_CompoundSort_to_dict ==
    /\ \E cs \in CompoundSorts :
          Finish("CompoundSort.to_dict", cs, Failed(Returned(CompoundSort_to_dict(cs))),
                 NoResponse)
    /\ UNCHANGED <<client, dclient, running, sexpr, fexpr, delivered, oplog, registry>>

Call_search_data ==
    /\ \E request \in SearchRequests, response \in SessionResponses(SearchBodies) :
          Finish("search_data", request, search_data(client, request, response), response)
    /\ delivered' = <<>>
    /\ UNCHANGED <<client, dclient, running, sexpr, fexpr, oplog, registry>>

Call_read_document ==
    /\ \E path \in {"", "/some/path"}, options \in ReaderOptions,
          response \in SessionResponses(ReadBodies) :
          Finish("read_document", [path |-> path, options |-> options],
                 read_document(client, path, options, response), response)
    /\ delivered' = <<>>
    /\ UNCHANGED <<client, dclient, running, sexpr, fexpr, oplog, registry>>

Call_add_collection ==
    /\ \E request \in AddCollectionRequests, response \in SessionResponses(GenericBodies) :
          Finish("add_collection", request, add_collection(client, request, response), response)
    /\ delivered' = <<>>
    /\ UNCHANGED <<client, dclient, running, sexpr, fexpr, oplog, registry>>

Call_insert_record ==
    /\ \E request \in InsertRecordRequests, response \in SessionResponses(InsertBodies) :
          Finish("insert_record", request, insert_record(client, request, response), response)
    /\ delivered' = <<>>
    /\ UNCHANGED <<client, dclient, running, sexpr, fexpr, oplog, registry>>

Call_ingest_data ==
    /\ \E request \in IngestRequests, response \in SessionResponses(GenericBodies) :
          Finish("ingest_data", request, ingest_data(client, request, response), response)
    /\ delivered' = <<>>
    /\ UNCHANGED <<client, dclient, running, sexpr, fexpr, oplog, registry>>

Call_list_collections ==
    /\ \E response \in SessionResponses(ListBodies) :
          Finish("list_collections", EmptyDict, list_collections(client, response), response)
    /\ delivered' = <<>>
    /\ UNCHANGED <<client, dclient, running, sexpr, fexpr, oplog, registry>>

\* The mutant remembers the session's timeout of the call before: the client's
\* timeout becomes the one of the last call it made.
Call_health_check_keeps_state ==
    /\ \E response \in SessionResponses(HealthBodies) :
          Finish("health_check", EmptyDict, health_check(client, response), response)
    /\ delivered' = <<>>
    /\ client' = [client EXCEPT !.timeout = IF last.op = "health_check" THEN 1 ELSE @]
    /\ UNCHANGED <<dclient, running, sexpr, fexpr, oplog, registry>>

Call_list_storage ==
    /\ \E path \in {"", "/some/path"}, source \in {NoStr, PyStr(""), PyStr("mongodb")},
          response \in SessionResponses(ReadBodies) :
          Finish("list_storage", [path |-> path, source |-> source],
                 list_storage(client, path, source, response), response)
    /\ delivered' = <<>>
    /\ UNCHANGED <<client, dclient, running, sexpr, fexpr, oplog, registry>>

Call_health_check ==
    /\ \E response \in SessionResponses(HealthBodies) :
          Finish("health_check", EmptyDict, health_check(client, response), response)
    /\ delivered' = <<>>
    /\ UNCHANGED <<client, dclient, running, sexpr, fexpr, oplog, registry>>

Call_export_collection ==
    /\ \E name \in Collections, response \in SessionResponses({EmptyDict}) :
          Finish("export_collection", [name |-> name],
                 export_collection(client, name, response), response)
    /\ delivered' = <<>>
    /\ UNCHANGED <<client, dclient, running, sexpr, fexpr, oplog, registry>>

Call_upload_data_file ==
    /\ \E exists \in BOOLEAN, response \in SessionResponses(GenericBodies) :
          Finish("upload_data_file", [file_path |-> "data.csv", exists |-> exists],
                 upload_data_file(client, "data.csv", exists, response), response)
    /\ delivered' = <<>>
    /\ UNCHANGED <<client, dclient, running, sexpr, fexpr, oplog, registry>>

Call_stream_ingest_stats ==
    /\ \E collection \in Collections, response \in StreamResponses :
          LET r == stream_ingest_stats(client, collection, response)
          IN  /\ Finish("stream_ingest_stats", [collection |-> collection], r, response)
              /\ delivered' = r.events
    /\ UNCHANGED <<client, dclient, running, sexpr, fexpr, oplog, registry>>

\* A caller enters stream_ingest_stats: session.get(url, stream=True, timeout) and
\* the test of the status.  Below 400 the call goes on to iterate over the lines.
Stream_open ==
    /\ running.pc # "iterating"
    /\ \E collection \in {"docs"}, status \in {200, 500} :
          LET r == stream_ingest_stats(client, collection,
                                       Response(status, "", TRUE, EmptyDict, <<>>))
          IN  running' = [NoStream EXCEPT
                           !.pc = IF Ok_(r.outcome) THEN "iterating" ELSE "raised",
                           !.collection = collection, !.calls = r.calls,
                           !.conn = IF Ok_(r.outcome) THEN "open" ELSE "none",
                           !.outcome = r.outcome]
    /\ UNCHANGED <<client, dclient, sexpr, fexpr, calls, last, delivered, oplog, registry>>

\* The server writes one more line on the open connection.
Server_sends ==
    /\ running.pc = "iterating" /\ running.conn = "open"
    /\ Len(running.arrived) < MaxLines
    /\ \E line \in {Bytes(""), Bytes("ev1"), Bytes("ev2")} :
          running' = [running EXCEPT !.arrived = Append(@, line)]
    /\ UNCHANGED <<client, dclient, sexpr, fexpr, calls, last, delivered, oplog, registry>>

\* The server closes the connection.
Server_closes ==
    /\ running.pc = "iterating" /\ running.conn = "open"
    /\ running' = [running EXCEPT !.conn = "server_closed"]
    /\ UNCHANGED <<client, dclient, sexpr, fexpr, calls, last, delivered, oplog, registry>>

\* The caller closes the connection under the running call (from the callback or
\* from another thread); cut remembers how many events the callback had by then.
Caller_cancels ==
    /\ running.pc = "iterating" /\ running.conn = "open"
    /\ running' = [running EXCEPT !.conn = "cancelled", !.cut = Len(running.events)]
    /\ UNCHANGED <<client, dclient, sexpr, fexpr, calls, last, delivered, oplog, registry>>

\* One turn of the loop: iter_lines() yields the next line that has arrived.  The
\* loop tests nothing but the line, so a line the transport had read before the
\* connection was closed is handled like any other.
Stream_line ==
    /\ running.pc = "iterating" /\ running.taken < Len(running.arrived)
    /\ running' = [running EXCEPT
                    !.taken = @ + 1,
                    !.events = stream_ingest_stats_line(@, running.arrived[running.taken + 1])]
    /\ UNCHANGED <<client, dclient, sexpr, fexpr, calls, last, delivered, oplog, registry>>

\* iter_lines() is exhausted after the server closed: the loop ends, None is returned.
Stream_return ==
    /\ running.pc = "iterating" /\ running.conn = "server_closed"
    /\ running.taken = Len(running.arrived)
    /\ running' = [running EXCEPT !.pc = "returned", !.outcome = Returned(None)]
    /\ UNCHANGED <<client, dclient, sexpr, fexpr, calls, last, delivered, oplog, registry>>

\* iter_lines() on a connection the caller closed: the iteration ends or raises,
\* as the transport decides; the lines not yet yielded are dropped.
Stream_cancelled ==
    /\ running.pc = "iterating" /\ running.conn = "cancelled"
    /\ \E outcome \in {Returned(None), Raised("ConnectionError", "connection closed")} :
          running' = [running EXCEPT !.pc = IF Ok_(outcome) THEN "returned" ELSE "raised",
                                   !.outcome = outcome]
    /\ UNCHANGED <<client, dclient, sexpr, fexpr, calls, last, delivered, oplog, registry>>

\* The answer the client gets: the service's, or a failure that changes nothing.
Answer(state, served, fails) ==
    IF fails THEN Served(state, Unavailable) ELSE served

Call_get_shilp_stats ==
    /\ \E fails \in BOOLEAN :
          LET call == get_shilp_stats(dclient, "acct", NoResponse).calls[1]
              a == Answer(registry, DiscoveryServer(registry, call), fails)
          IN  /\ Finish("get_shilp_stats", [account_id |-> "acct"],
                        get_shilp_stats(dclient, "acct", a.response), a.response)
              /\ registry' = a.state
    /\ delivered' = <<>>
    /\ UNCHANGED <<client, dclient, running, sexpr, fexpr, oplog>>

Call_update_shilp_sync_status ==
    /\ \E address \in Addresses, status \in SyncStatus, fails \in BOOLEAN :
          LET call == update_shilp_sync_status(dclient, "acct", address, status,
                                               NoResponse).calls[1]
              a == Answer(registry, DiscoveryServer(registry, call), fails)
          IN  /\ Finish("update_shilp_sync_status",
                        [account_id |-> "acct", address |-> address, status |-> status],
                        update_shilp_sync_status(dclient, "acct", address, status, a.response), a.response)
              /\ registry' = a.state
    /\ delivered' = <<>>
    /\ UNCHANGED <<client, dclient, running, sexpr, fexpr, oplog>>

Call_register_shilp_service ==
    /\ \E address \in Addresses, replica_type \in ReplicaType, fails \in BOOLEAN :
          LET call == register_shilp_service(dclient, "acct", address, ServiceId(address),
                                             replica_type, NoResponse).calls[1]
              a == Answer(registry, DiscoveryServer(registry, call), fails)
          IN  /\ Finish("register_shilp_service",
                        [account_id |-> "acct", address |-> address,
                         service_id |-> ServiceId(address), replica_type |-> replica_type],
                        register_shilp_service(dclient, "acct", address, ServiceId(address),
                                               replica_type, a.response), a.response)
              /\ registry' = a.state
    /\ delivered' = <<>>
    /\ UNCHANGED <<client, dclient, running, sexpr, fexpr, oplog>>

Call_unregister_shilp_service ==
    /\ \E address \in Addresses, replica_type \in ReplicaType, fails \in BOOLEAN :
          LET call == unregister_shilp_service(dclient, "acct", address, ServiceId(address),
                                               replica_type, NoResponse).calls[1]
              a == Answer(registry, DiscoveryServer(registry, call), fails)
          IN  /\ Finish("unregister_shilp_service",
                        [account_id |-> "acct", address |-> address,
                         service_id |-> ServiceId(address), replica_type |-> replica_type],
                        unregister_shilp_service(dclient, "acct", address, ServiceId(address),
                                                 replica_type, a.response), a.response)
              /\ registry' = a.state
    /\ delivered' = <<>>
    /\ UNCHANGED <<client, dclient, running, sexpr, fexpr, oplog>>

\* With a session that may answer anything (a test double).
Call_register_tei_service ==
    /\ \E address \in Addresses, response \in SessionResponses(GenericBodies) :
          Finish("register_tei_service",
                 [account_id |-> "acct", address |-> address, service_id |-> "tei-1"],
                 register_tei_service(dclient, "acct", address, "tei-1", response), response)
    /\ delivered' = <<>>
    /\ UNCHANGED <<client, dclient, running, sexpr, fexpr, oplog, registry>>

Call_get_oplog_entries ==
    /\ \E collection \in Collections \cup {""}, after_lsn \in 0..MaxLsn, limit \in {-1, 0, 1},
          fails \in BOOLEAN :
          LET call == get_oplog_entries(client, collection, after_lsn, limit,
                                        NoResponse).calls[1]
              a == Answer(oplog, OplogServer(oplog, call, FALSE), fails)
          IN  /\ Finish("get_oplog_entries",
                        [collection |-> collection, after_lsn |-> after_lsn, limit |-> limit],
                        get_oplog_entries(client, collection, after_lsn, limit, a.response), a.response)
              /\ oplog' = a.state
    /\ delivered' = <<>>
    /\ UNCHANGED <<client, dclient, running, sexpr, fexpr, registry>>

Call_get_oplog_status ==
    /\ \E collection \in Collections, fails \in BOOLEAN :
          LET call == get_oplog_status(client, collection, NoResponse).calls[1]
              a == Answer(oplog, OplogServer(oplog, call, FALSE), fails)
          IN  /\ Finish("get_oplog_status", [collection |-> collection],
                        get_oplog_status(client, collection, a.response), a.response)
              /\ oplog' = a.state
    /\ delivered' = <<>>
    /\ UNCHANGED <<client, dclient, running, sexpr, fexpr, registry>>

Call_register_replica ==
    /\ \E replica_id \in Replicas, fails \in BOOLEAN :
          LET call == register_replica(client, replica_id, NoResponse).calls[1]
              a == Answer(oplog, OplogServer(oplog, call, FALSE), fails)
          IN  /\ Finish("register_replica", [replica_id |-> replica_id],
                        register_replica(client, replica_id, a.response), a.response)
              /\ oplog' = a.state
    /\ delivered' = <<>>
    /\ UNCHANGED <<client, dclient, running, sexpr, fexpr, registry>>

Call_unregister_replica ==
    /\ \E replica_id \in Replicas, fails \in BOOLEAN :
          LET call == unregister_replica(client, replica_id, NoResponse).calls[1]
              a == Answer(oplog, OplogServer(oplog, call, FALSE), fails)
          IN  /\ Finish("unregister_replica", [replica_id |-> replica_id],
                        unregister_replica(client, replica_id, a.response), a.response)
              /\ oplog' = a.state
    /\ delivered' = <<>>
    /\ UNCHANGED <<client, dclient, running, sexpr, fexpr, registry>>

\* prior: the LSN the service held for the replica when the call was made.
Call_update_replica_lsn ==
    /\ \E collection \in Collections, replica_id \in Replicas, lsn \in HeartbeatLsns,
          strict \in BOOLEAN, fails \in BOOLEAN :
          LET r0 == update_replica_lsn(client, collection, replica_id, lsn, NoResponse)
              a == IF r0.calls = <<>> THEN Served(oplog, NoResponse)
                   ELSE Answer(oplog, OplogServer(oplog, r0.calls[1], strict), fails)
          IN  /\ Finish("update_replica_lsn",
                        [collection |-> collection, replica_id |-> replica_id, lsn |-> lsn,
                         prior |-> oplog.high[<<collection, replica_id>>]],
                        update_replica_lsn(client, collection, replica_id, lsn, a.response), a.response)
              /\ oplog' = a.state
    /\ delivered' = <<>>
    /\ UNCHANGED <<client, dclient, running, sexpr, fexpr, registry>>

\* Another writer's mutation adds an entry to a collection's oplog.
Server_append ==
    /\ \E collection \in Collections :
          /\ oplog.last_lsn[collection] < MaxLsn
          /\ oplog' = [oplog EXCEPT !.last_lsn[collection] = @ + 1]
    /\ UNCHANGED <<client, dclient, running, sexpr, fexpr, calls, last, delivered, registry>>

NextModels == New_FilterExpression \/ Call_FilterExpression_validate

NextWire ==
    \/ New_SortExpression
    \/ Call_SortExpression_validate
    \/ Call_CompoundFilter_to_dict
    \/ Call_CompoundSort_to_dict

NextRequests ==
    \/ Call_add_collection
    \/ Call_insert_record
    \/ Call_ingest_data
    \/ Call_search_data

NextListing == Call_list_collections \/ Call_health_check

NextTransport ==
    \/ Call_search_data
    \/ Call_read_document
    \/ Call_health_check
    \/ Call_export_collection
    \/ Call_upload_data_file
    \/ Call_stream_ingest_stats
    \/ Call_register_tei_service

NextDiscovery ==
    \/ Call_get_shilp_stats
    \/ Call_update_shilp_sync_status
    \/ Call_register_shilp_service
    \/ Call_unregister_shilp_service

NextOplog ==
    \/ Call_get_oplog_entries
    \/ Call_get_oplog_status
    \/ Server_append

NextReplica ==
    \/ Call_register_replica
    \/ Call_unregister_replica
    \/ Call_update_replica_lsn
    \/ Call_get_oplog_status

\* The operations that build a query string, the oplog growing meanwhile.
NextQuery ==
    \/ Call_get_oplog_entries
    \/ Call_list_storage
    \/ Server_append

\* One caller streams while others use the same client and the discovery client.
NextStream ==
    \/ Stream_open
    \/ Server_sends
    \/ Server_closes
    \/ Caller_cancels
    \/ Stream_line
    \/ Stream_return
    \/ Stream_cancelled
    \/ Call_health_check
    \/ Call_register_tei_service

Next == NextQuery \/ NextStream \/ NextModels \/ NextWire \/ NextRequests \/ NextListing \/ NextTransport \/ NextDiscovery \/ NextOplog \/ NextReplica

\* The query-expression model alone.
SpecModels == Init /\ [][NextModels]_vars
\* The client against a session that may answer anything.
SpecWire == Init /\ [][NextWire]_vars

SpecRequests == Init /\ [][NextRequests]_vars

SpecListing == Init /\ [][NextListing]_vars

SpecTransport == Init /\ [][NextTransport]_vars
\* The discovery client against the discovery service.
SpecDiscovery == Init /\ [][NextDiscovery]_vars
\* The client reading the oplog while it grows.
SpecOplog == Init /\ [][NextOplog]_vars
\* The client registering replicas and sending heartbeats.
SpecReplica == Init /\ [][NextReplica]_vars
SpecQuery == Init /\ [][NextQuery]_vars
\* A stream_ingest_stats call line by line, with its server and its caller.
SpecStream == Init /\ [][NextStream]_vars
Spec == Init /\ [][Next]_vars

(***************************************************************************)
(* Properties.                                                             *)
(***************************************************************************)
SetOps == {FilterOp_IN, FilterOp_NOT_IN}

\* C1: FilterExpression.validate() on an expression with a non-empty attribute
\* succeeds, for IN and NOT_IN, exactly when values is a non-empty list (None and
\* [] fail) and, for every other operator, exactly when value is not None; with
\* an empty attribute it fails whatever the operator, value and values are.
C1_ValidateIff ==
    last.op = "FilterExpression.validate" =>
        /\ last.args = fexpr
        /\ (fexpr.attribute # "" /\ fexpr.op \in SetOps) =>
              (Ok_(last.outcome) <=> (fexpr.values.t = "list" /\ Len(fexpr.values.v) >= 1))
        /\ (fexpr.attribute # "" /\ fexpr.op \notin SetOps) =>
              (Ok_(last.outcome) <=> fexpr.value.t # "none")
        /\ fexpr.attribute = "" => last.outcome.kind = "ValueError"

\* An IN filter with an empty values list was validated and refused.
C1_Witness ==
    /\ last.op = "FilterExpression.validate"
    /\ fexpr.attribute = "price" /\ fexpr.op = FilterOp_IN /\ fexpr.values = PyList(<<>>)
    /\ last.outcome.kind = "ValueError"

\* The request has neither a text query nor a vector query.
NoQuery(request) == request.query = "" /\ ~Truthy(request.vector_query)

OptionsOf(options) == IF options = NoObj THEN DefaultFileReaderOptions ELSE options.o

\* C3: when a pre-flight validation fails (search_data with an empty collection or
\* with neither query; read_document with an empty path, a negative limit or a
\* negative skip) the operation has made no call on the session.
C3_NoCallOnValidationFailure ==
    /\ (last.op = "search_data" /\ (last.args.collection = "" \/ NoQuery(last.args))) =>
          (calls = <<>> /\ ~Ok_(last.outcome))
    /\ (last.op = "read_document"
          /\ (last.args.path = "" \/ OptionsOf(last.args.options).limit < 0
              \/ OptionsOf(last.args.options).skip < 0)) =>
          (calls = <<>> /\ last.outcome.kind = "ValueError")

\* read_document was refused for a negative skip with a valid path and limit.
C3_Witness ==
    /\ last.op = "read_document"
    /\ last.args.path # "" /\ OptionsOf(last.args.options).limit = 10
    /\ OptionsOf(last.args.options).skip < 0
    /\ last.outcome = ValueError("skip cannot be negative")
    /\ calls = <<>>

\* C4: on every transport path, a response with status >= 400 makes the operation
\* raise the HTTP error that carries that very response (its status and raw text),
\* and nothing is returned or given to the callback; a response with status < 400
\* never raises it.
C4_ApiError ==
    calls # <<>> =>
        /\ last.resp.status >= 400 =>
              /\ last.outcome = HTTPError(last.resp)
              /\ delivered = <<>>
        /\ last.resp.status < 400 => last.outcome.kind # "HTTPError"

\* The event stream was refused with status 400 although lines were on the wire.
C4_Witness ==
    /\ last.op = "stream_ingest_stats"
    /\ last.resp.status = 400 /\ last.resp.text = "Internal Server Error"
    /\ last.resp.lines # <<>>
    /\ last.outcome.kind = "HTTPError" /\ last.outcome.response.status = 400
    /\ delivered = <<>>

\* C5: search_data on a request with a collection and a text query and no vector
\* query issues exactly one POST to /api/data/v1/search carrying the collection
\* and the query, and returns a SearchResponse when the answer has status < 400
\* and a body with success and data.
C5_TextSearchIsSent ==
    (last.op = "search_data" /\ last.args.collection # "" /\ last.args.query # ""
       /\ last.args.vector_query \in {Absent, NoList}) =>
        /\ Len(calls) = 1
        /\ calls[1].method = "POST"
        /\ calls[1].url.path = <<"/api/data/v1/search">>
        /\ calls[1].json.collection = last.args.collection
        /\ calls[1].json.query = last.args.query
        /\ (last.resp.status < 400 /\ last.resp.content
              /\ {"success", "data"} \subseteq DOMAIN last.resp.json) =>
              (Ok_(last.outcome) /\ last.outcome.value.class = "SearchResponse")

\* C6 (as claimed): update_replica_lsn raises InvalidLsnError exactly when the LSN
\* is lower than one acknowledged before for that collection and replica.
C6_ClientRefusesLowerLsn ==
    last.op = "update_replica_lsn" =>
        (last.outcome.kind = "InvalidLsnError" <=> last.args.lsn < last.args.prior)

\* C6 (amended): update_replica_lsn makes no check of its own: for every LSN,
\* lower than an acknowledged one or not, it issues exactly one POST to
\* /api/oplog/v1/heartbeat carrying collection, replica_id and lsn as given, never
\* raises InvalidLsnError, and raises the HTTP error exactly when the answer has
\* status >= 400.
C6_HeartbeatSentUnchecked ==
    last.op = "update_replica_lsn" =>
        /\ Len(calls) = 1
        /\ calls[1].method = "POST"
        /\ calls[1].url.path = <<"/api/oplog/v1/heartbeat">>
        /\ calls[1].json = [collection |-> last.args.collection,
                            replica_id |-> last.args.replica_id, lsn |-> last.args.lsn]
        /\ last.outcome.kind # "InvalidLsnError"
        /\ (last.outcome.kind = "HTTPError" <=> last.resp.status >= 400)

\* LSN 3 was reported after 5 had been acknowledged, and the call succeeded.
C6_Witness ==
    /\ last.op = "update_replica_lsn"
    /\ last.args.lsn = 3 /\ last.args.prior = 5
    /\ Ok_(last.outcome)

\* The entries a GetOplogResponse holds.
EntriesOf(outcome) == outcome.value.fields.entries

\* C7: whenever the service answers get_oplog_entries(c, after_lsn = N) for a
\* collection c, the call returns and its entries all have LSN > N in strictly
\* ascending order; when the collection has no entry after N the entries are the
\* empty sequence.
C7_EntriesAfterLsn ==
    (last.op = "get_oplog_entries" /\ last.args.collection \in Collections
       /\ last.resp.status < 400) =>
        /\ Ok_(last.outcome)
        /\ \A i \in 1..Len(EntriesOf(last.outcome)) :
              EntriesOf(last.outcome)[i].lsn > last.args.after_lsn
        /\ \A i, j \in 1..Len(EntriesOf(last.outcome)) :
              i < j => EntriesOf(last.outcome)[i].lsn < EntriesOf(last.outcome)[j].lsn
        /\ oplog.last_lsn[last.args.collection] <= last.args.after_lsn =>
              EntriesOf(last.outcome) = <<>>

\* Two entries came back for after_lsn = 0.
C7_Witness ==
    /\ last.op = "get_oplog_entries" /\ last.args.collection = "docs"
    /\ last.args.after_lsn = 0
    /\ Ok_(last.outcome)
    /\ Len(EntriesOf(last.outcome)) = 2

\* The service answered the call (it did not fail).
Answered(l) == l.resp # NoResponse /\ l.resp # Unavailable

C8_Step ==
    /\ (last'.op = "register_replica" /\ Answered(last')
          /\ last'.args.replica_id \notin oplog.registered) =>
          /\ Ok_(last'.outcome)
          /\ last'.args.replica_id \in oplog'.registered
          /\ \A c \in Collections : oplog'.acked[<<c, last'.args.replica_id>>] = 0
    /\ (last'.op = "update_replica_lsn" /\ Ok_(last'.outcome)) =>
          /\ last'.args.replica_id \in oplog.registered
          /\ last'.args.replica_id \in oplog'.registered
          /\ oplog'.acked[<<last'.args.collection, last'.args.replica_id>>] = last'.args.lsn
    /\ (last'.op = "unregister_replica" /\ Answered(last')
          /\ last'.args.replica_id \in oplog.registered) =>
          /\ Ok_(last'.outcome)
          /\ last'.args.replica_id \notin oplog'.registered
    /\ (last'.op = "get_oplog_status" /\ Answered(last')) =>
          /\ Ok_(last'.outcome)
          /\ last'.outcome.value.fields.replica_count = Cardinality(oplog'.registered)

\* C8: no replica is registered at the start; register_replica(r) answered by the
\* service registers r with acknowledged LSN 0; a successful update_replica_lsn
\* keeps r registered with acknowledged LSN lsn; unregister_replica(r) answered by
\* the service leaves r unregistered; get_oplog_status reports as replica_count
\* the number of registered replicas (0 before any registration, 1 after one).
C8_ReplicaStateMachine == oplog.registered = {} /\ [][C8_Step]_vars

\* get_oplog_status reported one replica after one registration.
C8_Witness ==
    /\ last.op = "get_oplog_status" /\ Ok_(last.outcome)
    /\ last.outcome.value.fields.replica_count = 1
    /\ oplog.registered = {"replica-1"}

\* The addresses of the read replicas of a Status that take traffic.
Eligible(stats) ==
    {stats.registry.read_replicas[i].address :
        i \in {k \in 1..Len(stats.registry.read_replicas) :
                 ~stats.registry.read_replicas[k].is_syncing}}

\* C9: a get_shilp_stats answered right after a successful
\* update_shilp_sync_status(account, address, status) returns a Status in which
\* the address is not among the traffic-eligible read replicas when status is
\* SYNCING, and is among them when status is READY and the address is a read
\* replica.
C9_SyncGating ==
    [][(/\ last.op = "update_shilp_sync_status" /\ Ok_(last.outcome)
        /\ last'.op = "get_shilp_stats" /\ Answered(last')) =>
          /\ Ok_(last'.outcome)
          /\ IF last.args.status = "syncing"
             THEN last.args.address \notin Eligible(last'.outcome.value)
             ELSE last.args.address \in Elems(registry.reads) =>
                     last.args.address \in Eligible(last'.outcome.value)]_vars

\* The flags each role stands for.
RoleFlags(replica_type) ==
    CASE replica_type = SINGLE_NODE -> [is_read |-> TRUE, is_write |-> TRUE]
      [] replica_type = READ_REPLICA -> [is_read |-> TRUE, is_write |-> FALSE]
      [] replica_type = WRITE_REPLICA -> [is_read |-> FALSE, is_write |-> TRUE]

\* C10: register_shilp_service and unregister_shilp_service send, for the same
\* role, the same flags: SINGLE_NODE is_read and is_write, READ_REPLICA is_read
\* only, WRITE_REPLICA is_write only; at least one flag is always true.
C10_RoleFlags ==
    last.op \in {"register_shilp_service", "unregister_shilp_service"} =>
        /\ Len(calls) = 1
        /\ calls[1].json.is_read = RoleFlags(last.args.replica_type).is_read
        /\ calls[1].json.is_write = RoleFlags(last.args.replica_type).is_write
        /\ calls[1].json.is_read \/ calls[1].json.is_write

\* A single node was registered with both flags set.
C10_Witness ==
    /\ last.op = "register_shilp_service" /\ last.args.replica_type = SINGLE_NODE
    /\ calls[1].json.is_read /\ calls[1].json.is_write

\* C11: every get_shilp_stats the service answers with a registry snapshot returns
\* a Status, also when no write replica is set: read_replicas are those of the
\* response in its order, and available, total, active_proxies and targets are
\* the response's or, when the key is missing, 0, 0, 0 and [].
C11_StatsForEverySnapshot ==
    (last.op = "get_shilp_stats" /\ Answered(last) /\ last.resp.status < 400) =>
        /\ Ok_(last.outcome)
        /\ last.outcome.value.registry.read_replicas
              = Get(Get(last.resp.json, "registry", EmptyDict), "read_replicas", <<>>)
        /\ last.outcome.value.registry.available
              = Get(Get(last.resp.json, "registry", EmptyDict), "available", 0)
        /\ last.outcome.value.registry.total
              = Get(Get(last.resp.json, "registry", EmptyDict), "total", 0)
        /\ last.outcome.value.proxy.active_proxies
              = Get(Get(last.resp.json, "proxy", EmptyDict), "active_proxies", 0)
        /\ last.outcome.value.proxy.targets
              = Get(Get(last.resp.json, "proxy", EmptyDict), "targets", <<>>)

\* The "and" list of the wire form the last to_dict returned.
AndOf(l) == l.outcome.value["and"]

C13_FourKeys ==
    (last.op = "CompoundFilter.to_dict" /\ Truthy(last.args.and_filters)) =>
        \A i \in 1..Len(AndOf(last)) :
            /\ DOMAIN AndOf(last)[i] = {"attribute", "op", "value", "values"}
            /\ AndOf(last)[i]["value"] = last.args.and_filters.v[i].value
            /\ AndOf(last)[i]["values"] = last.args.and_filters.v[i].values

\* An IN expression without a value and an EQUALS expression without values were
\* converted: both keys are in both entries, holding None.
C13_Witness ==
    /\ last.op = "CompoundFilter.to_dict"
    /\ Len(last.args.and_filters.v) = 2
    /\ last.args.and_filters.v[1].op = FilterOp_IN /\ last.args.and_filters.v[1].value = None
    /\ last.args.and_filters.v[2].op = EQUALS /\ last.args.and_filters.v[2].values = NoList
    /\ AndOf(last)[1]["value"] = None
    /\ AndOf(last)[2]["values"] = NoList

\* C14: to_dict() of a CompoundFilter or a CompoundSort returns for every content,
\* ill-formed expressions included, and returns the empty object {} when the
\* compound holds no expression (an empty list or None).
C14_ToDictTotal ==
    /\ last.op = "CompoundFilter.to_dict" =>
          /\ Ok_(last.outcome)
          /\ ~Truthy(last.args.and_filters) => last.outcome.value = EmptyDict
    /\ last.op = "CompoundSort.to_dict" =>
          /\ Ok_(last.outcome)
          /\ ~Truthy(last.args.sorts) => last.outcome.value = EmptyDict

\* The default CompoundFilter (an empty list) gave {}.
C14_Witness ==
    /\ last.op = "CompoundFilter.to_dict"
    /\ last.args = CompoundFilter(PyList(<<>>))
    /\ last.outcome = Returned(EmptyDict)

\* C15: SortExpression.validate() raises exactly when the attribute is empty or
\* the order is neither ASCENDING nor DESCENDING, and leaves the expression as it
\* was.
C15_SortValidateIff ==
    last.op = "SortExpression.validate" =>
        /\ last.args = sexpr
        /\ ~Ok_(last.outcome) <=> (sexpr.attribute = "" \/ sexpr.order \notin {ASCENDING, DESCENDING})
        /\ ~Ok_(last.outcome) => last.outcome.kind = "ValueError"

\* An expression with an attribute and the order 2 was validated and refused.
C15_Witness ==
    /\ last.op = "SortExpression.validate"
    /\ sexpr = SortExpression("price", 2)
    /\ last.outcome = ValueError("invalid sort order")

\* C16: CompoundSort.to_dict() gives, under the one key "sorts", one entry
\* {attribute, order} for each SortExpression, the i-th entry for the i-th
\* expression.
C16_SortsInOrder ==
    (last.op = "CompoundSort.to_dict" /\ Truthy(last.args.sorts)) =>
        /\ Ok_(last.outcome)
        /\ DOMAIN last.outcome.value = {"sorts"}
        /\ Len(last.outcome.value["sorts"]) = Len(last.args.sorts.v)
        /\ \A i \in 1..Len(last.args.sorts.v) :
              last.outcome.value["sorts"][i]
                 = [attribute |-> last.args.sorts.v[i].attribute,
                    order |-> last.args.sorts.v[i].order]

\* Two sorts of different order were converted, the descending one first.
C16_Witness ==
    /\ last.op = "CompoundSort.to_dict"
    /\ last.args.sorts.v = <<SortExpression("price", DESCENDING), SortExpression("price", ASCENDING)>>
    /\ last.outcome.value["sorts"][1]["order"] = DESCENDING
    /\ last.outcome.value["sorts"][2]["order"] = ASCENDING

\* Some expression of the request's filter or sort does not pass its validate().
IllFormed(request) ==
    \/ /\ request.filters # NoObj /\ Truthy(request.filters.o.and_filters)
       /\ \E i \in 1..Len(request.filters.o.and_filters.v) :
             ~Ok_(FilterExpression_validate(request.filters.o.and_filters.v[i]))
    \/ /\ request.sort # NoObj /\ Truthy(request.sort.o.sorts)
       /\ \E i \in 1..Len(request.sort.o.sorts.v) :
             ~Ok_(SortExpression_validate(request.sort.o.sorts.v[i]))

\* C17: a search_data whose request passes the collection and query checks, has a
\* vector_query attribute, and holds an ill-formed expression in its filter or
\* sort raises ValueError and makes no call on the session.
C17_IllFormedSearchRefused ==
    (last.op = "search_data" /\ last.args.collection # ""
       /\ ~NoQuery(last.args) /\ last.args.vector_query # Absent /\ IllFormed(last.args)) =>
        /\ last.outcome.kind = "ValueError"
        /\ calls = <<>>

\* The caller gave the field a value (it is neither None nor missing).
Supplied(v) == v.t \notin {"none", "absent"}

\* The optional request fields of an operation that become keys of its JSON body.
OptionalKeys(op) ==
    CASE op = "insert_record" -> InsertOptional
      [] op = "ingest_data" -> {IngestOptional[i] : i \in 1..Len(IngestOptional)}
      [] op = "add_collection" -> {"storage_type", "reference_storage_type"}
      [] op = "search_data" -> {"fields", "limit", "weights", "max_distance", "filters",
                                 "sort", "vector_query"}

\* C18: insert_record, ingest_data, add_collection and search_data (on a request
\* that has a collection and a query) send one request whose JSON body has the
\* key of an optional field exactly when the caller supplied a value for it.
C18_OptionalKeysIffSupplied ==
    (/\ last.op \in {"insert_record", "ingest_data", "add_collection", "search_data"}
     /\ last.op = "search_data" => (last.args.collection # "" /\ last.args.query # "")) =>
        /\ Len(calls) = 1
        /\ \A k \in OptionalKeys(last.op) :
              k \in DOMAIN calls[1].json <=> Supplied(last.args[k])

\* C19: add_collection on any AddCollectionRequest issues exactly one POST to
\* /api/collections/v1/ whose body carries the request's name and
\* has_metadata_storage, and storage_type / reference_storage_type exactly when
\* they are set, and returns a GenericResponse when the answer has status < 400
\* and a body with success and message.
C19_AddCollectionIsSent ==
    last.op = "add_collection" =>
        /\ Len(calls) = 1
        /\ calls[1].method = "POST"
        /\ calls[1].url.path = <<"/api/collections/v1/">>
        /\ calls[1].json.name = last.args.name
        /\ calls[1].json.has_metadata_storage = last.args.has_metadata_storage
        /\ "storage_type" \in DOMAIN calls[1].json <=> last.args.storage_type # None
        /\ "reference_storage_type" \in DOMAIN calls[1].json
              <=> last.args.reference_storage_type # None
        /\ (last.resp.status < 400 /\ last.resp.content
              /\ DOMAIN last.resp.json = {"success", "message"}) =>
              (Ok_(last.outcome) /\ last.outcome.value.class = "GenericResponse")

\* The sequence under a key of a listing body, empty when the key is missing.
ListOf(json, key) == Get(json, key, <<>>)

\* A metadata_info entry with every key and a type that is no StorageBackendType.
UnknownType(m) ==
    /\ {"support_metadata", "name", "type", "is_default"} \subseteq DOMAIN m
    /\ m["type"] \notin StorageBackendType

\* A collection with the required keys and a storage type that is no member.
UnknownStorage(c) ==
    /\ {"name", "is_loaded", "fields", "searchable_fields"} \subseteq DOMAIN c
    /\ \/ ("storage_type" \in DOMAIN c /\ c["storage_type"] \notin StorageBackendType)
       \/ ("reference_storage_type" \in DOMAIN c
             /\ c["reference_storage_type"] \notin StorageBackendType)

\* C20: a listing answered with status < 400 that carries an integer that is no
\* StorageBackendType, as a collection's storage_type or reference_storage_type
\* or as a metadata_info type, makes list_collections raise: nothing is returned
\* with the integer coerced or defaulted.  The error is the ValueError of the
\* enumeration when the integer is in the first collection, or in metadata_info
\* of a listing without collections whose entries have every key.
C20_UnknownEnumFails ==
    (last.op = "list_collections" /\ last.resp.status < 400 /\ last.resp.content) =>
        /\ ((\E i \in 1..Len(ListOf(last.resp.json, "data")) :
                UnknownStorage(ListOf(last.resp.json, "data")[i]))
            \/ (\E i \in 1..Len(ListOf(last.resp.json, "metadata_info")) :
                UnknownType(ListOf(last.resp.json, "metadata_info")[i]))) =>
              ~Ok_(last.outcome)
        /\ (ListOf(last.resp.json, "data") # <<>>
              /\ UnknownStorage(ListOf(last.resp.json, "data")[1])) =>
              last.outcome.kind = "ValueError"
        /\ (/\ "data" \in DOMAIN last.resp.json /\ last.resp.json["data"] = <<>>
            /\ \A i \in 1..Len(ListOf(last.resp.json, "metadata_info")) :
                  "is_default" \in DOMAIN ListOf(last.resp.json, "metadata_info")[i]
            /\ \E i \in 1..Len(ListOf(last.resp.json, "metadata_info")) :
                  UnknownType(ListOf(last.resp.json, "metadata_info")[i])) =>
              last.outcome.kind = "ValueError"

\* A listing without collections whose second metadata_info entry has type 3 was
\* refused with the ValueError of the enumeration.
C20_Witness ==
    /\ last.op = "list_collections" /\ last.resp.status = 200
    /\ "data" \in DOMAIN last.resp.json /\ ListOf(last.resp.json, "data") = <<>>
    /\ Len(ListOf(last.resp.json, "metadata_info")) = 2
    /\ UnknownType(ListOf(last.resp.json, "metadata_info")[2])
    /\ ListOf(last.resp.json, "metadata_info")[1]["type"] = FILE
    /\ ListOf(last.resp.json, "metadata_info")[2]["type"] = 3
    /\ last.outcome = ValueError("is not a valid StorageBackendType")

\* A collection of a listing that carries the required keys and no other.
RequiredOnly(c) == DOMAIN c = {"name", "is_loaded", "fields", "searchable_fields"}

\* C21: a listing answered with status < 400 whose collections carry only the
\* required keys (name, is_loaded, fields, searchable_fields) is decoded:
\* list_collections returns a ListCollectionsResponse with one Collection for
\* each item, the optional fields at their defaults.
C21_RequiredKeysDecode ==
    (/\ last.op = "list_collections" /\ last.resp.status < 400 /\ last.resp.content
     /\ DOMAIN last.resp.json = {"success", "message", "data"}
     /\ \A i \in 1..Len(last.resp.json["data"]) : RequiredOnly(last.resp.json["data"][i])) =>
        /\ Ok_(last.outcome)
        /\ last.outcome.value.class = "ListCollectionsResponse"
        /\ Len(last.outcome.value.fields["data"]) = Len(last.resp.json["data"])

\* C22: the members of the enumerations have the fixed integers AttrType 0..3,
\* FilterOp 0..7, SortOrder 0..1, StorageBackendType -1, 1, 2 and ReplicaType
\* 0..2, no two members of an enumeration share an integer, and the op and the
\* order of every entry to_dict() writes are the integers of the expression's
\* operator and order.
C22_EnumEncodings ==
    /\ <<INT64, FLOAT64, AttrType_STRING, BOOL>> = <<0, 1, 2, 3>>
    /\ <<EQUALS, NOT_EQUALS, GREATER_THAN, GREATER_THAN_OR_EQUAL, LESS_THAN,
         LESS_THAN_OR_EQUAL, FilterOp_IN, FilterOp_NOT_IN>> = <<0, 1, 2, 3, 4, 5, 6, 7>>
    /\ <<ASCENDING, DESCENDING>> = <<0, 1>>
    /\ <<DOES_NOT_EXIST, FILE, S3>> = <<-1, 1, 2>>
    /\ <<READ_REPLICA, WRITE_REPLICA, SINGLE_NODE>> = <<0, 1, 2>>
    /\ Cardinality(AttrType) = 4 /\ Cardinality(FilterOp) = 8 /\ Cardinality(SortOrder) = 2
    /\ Cardinality(StorageBackendType) = 3 /\ Cardinality(ReplicaType) = 3
    /\ (last.op = "CompoundFilter.to_dict" /\ Truthy(last.args.and_filters)) =>
          \A i \in 1..Len(AndOf(last)) :
              /\ AndOf(last)[i]["op"] = last.args.and_filters.v[i].op
              /\ AndOf(last)[i]["op"] \in 0..7
    /\ (last.op = "CompoundSort.to_dict" /\ Truthy(last.args.sorts)) =>
          \A i \in 1..Len(last.outcome.value["sorts"]) :
              /\ last.outcome.value["sorts"][i]["order"] = last.args.sorts.v[i].order
              /\ last.args.sorts.v[i].order \in SortOrder =>
                    last.outcome.value["sorts"][i]["order"] \in {0, 1}

\* A NOT_IN expression and a LESS_THAN expression were converted: the entries
\* carry 7 and 4.
C22_Witness ==
    /\ last.op = "CompoundFilter.to_dict"
    /\ Len(last.args.and_filters.v) = 2
    /\ last.args.and_filters.v[1].op = FilterOp_NOT_IN
    /\ last.args.and_filters.v[2].op = LESS_THAN
    /\ AndOf(last)[1]["op"] = 7
    /\ AndOf(last)[2]["op"] = 4

\* The texts of the non-empty lines of a sequence of received lines, in order.
NonEmptyLines(lines) ==
    LET kept == SelectSeq(lines, LAMBDA l : l.s # "")
    IN  [i \in 1..Len(kept) |-> kept[i].s]

\* C23: at every moment of a stream_ingest_stats call the callback has been
\* invoked once for each non-empty line the loop has taken so far, in the order
\* of arrival, with nothing held back, repeated or reordered and no invocation
\* for an empty line; when the call returns after the server closed, the
\* invocations are the non-empty lines of everything the server sent.
C23_EventsInArrivalOrder ==
    /\ running.events = NonEmptyLines(SubSeq(running.arrived, 1, running.taken))
    /\ \A i \in 1..Len(running.events) : running.events[i] # ""
    /\ (running.pc = "returned" /\ running.conn = "server_closed") =>
          running.events = NonEmptyLines(running.arrived)

\* The server sent ev2, a keep-alive line and ev1, then closed: the callback got
\* ev2 and ev1, in that order, and the call returned.
C23_Witness ==
    /\ running.pc = "returned" /\ running.conn = "server_closed"
    /\ running.arrived = <<Bytes("ev2"), Bytes(""), Bytes("ev1")>>
    /\ running.events = <<"ev2", "ev1">>

\* C24: once the caller has closed the connection under a running
\* stream_ingest_stats call, the callback is not invoked again.
C24_NoCallbackAfterCancel ==
    running.conn = "cancelled" => Len(running.events) = running.cut

\* C25: an operation whose one exchange is answered with status < 400 and an
\* empty body does not fail: the exchange gives the empty object and the
\* operation returns.
C25_EmptyBodyIsNoFailure ==
    (/\ last.op \in {"read_document", "health_check", "upload_data_file"}
     /\ Len(calls) = 1
     /\ last.resp.status < 400 /\ ~last.resp.content) =>
        Ok_(last.outcome)

\* C26: read_document raises ValueError exactly when the path is empty, the limit
\* is negative or the skip is negative, and the message is that of the first of
\* the three tests, in this order, that fails; with options=None the limit and
\* the skip are 0, so a non-empty path passes and the request carries the path
\* alone.
C26_ReadDocumentValidation ==
    last.op = "read_document" =>
        LET path == last.args.path
            opts == OptionsOf(last.args.options)
        IN  /\ last.outcome.kind = "ValueError"
                  <=> (path = "" \/ opts.limit < 0 \/ opts.skip < 0)
            /\ path = "" => last.outcome = ValueError("path cannot be empty")
            /\ (path # "" /\ opts.limit < 0) =>
                  last.outcome = ValueError("limit cannot be negative")
            /\ (path # "" /\ opts.limit >= 0 /\ opts.skip < 0) =>
                  last.outcome = ValueError("skip cannot be negative")
            /\ (path # "" /\ last.args.options = NoObj) =>
                  /\ Len(calls) = 1
                  /\ calls[1].params = ("path" :> path)

\* A negative limit and a negative skip together were refused for the limit.
C26_Witness ==
    /\ last.op = "read_document"
    /\ last.args.path = "/some/path"
    /\ OptionsOf(last.args.options).limit = -1
    /\ OptionsOf(last.args.options).skip = -1
    /\ last.outcome = ValueError("limit cannot be negative")
    /\ calls = <<>>

\* One step of the clients as C27 describes it.
C27_Step ==
    /\ client' = client
    /\ dclient' = dclient
    /\ last' # last =>
          /\ running' = running
          /\ last'.op = "health_check" =>
                Result(calls', last'.outcome) = health_check(client, last'.resp)
          /\ last'.op = "register_tei_service" =>
                Result(calls', last'.outcome)
                   = register_tei_service(dclient, last'.args.account_id, last'.args.address,
                                          last'.args.service_id, last'.resp)
    /\ running' # running =>
          /\ last' = last /\ calls' = calls
          /\ running'.pc = "iterating" =>
                running'.events = NonEmptyLines(SubSeq(running'.arrived, 1, running'.taken))

C28_NoImplicitRetry ==
    /\ Len(calls) <= 1
    /\ (Len(calls) = 1 /\ last.resp = ConnectionError) =>
          (last.outcome.kind = "ConnectionError" /\ delivered = <<>>)
    /\ (Len(calls) = 1 /\ last.resp.status >= 400) =>
          (last.outcome = HTTPError(last.resp) /\ delivered = <<>>)

\* upload_data_file posted the file once, the session raised, and the error
\* reached the caller.
C28_Witness ==
    /\ last.op = "upload_data_file"
    /\ Len(calls) = 1 /\ calls[1].fn = "post"
    /\ last.resp = ConnectionError
    /\ last.outcome.kind = "ConnectionError"

\* The client an operation belongs to.
ClientOf(op) == IF op = "register_tei_service" THEN dclient ELSE client

\* C29: every call an operation makes on the session (request, post of a file,
\* get of a stream; Client or DiscoveryClient) is made on the session the client
\* was constructed with and carries the timeout it was constructed with, which
\* is 30 when none was given.
C29_TimeoutAndSession ==
    /\ \A i \in 1..Len(calls) :
          /\ calls[i].timeout = ClientOf(last.op).timeout
          /\ calls[i].session = ClientOf(last.op).session
    /\ <<client.timeout, client.session>> \in ClientConfigs
    /\ <<dclient.timeout, dclient.session>> \in ClientConfigs
    /\ client.session = "own" => client.timeout = 30

\* A client built with timeout 60 and a session of the caller's opened the event
\* stream with both.
C29_Witness ==
    /\ last.op = "stream_ingest_stats"
    /\ client.timeout = 60 /\ client.session = "supplied"
    /\ Len(calls) = 1 /\ calls[1].fn = "get" /\ calls[1].stream
    /\ calls[1].timeout = 60 /\ calls[1].session = "supplied"

\* C30: the query of get_oplog_entries always carries after_lsn (as decimal
\* text), carries limit exactly when limit > 0 and collection exactly when it is
\* not empty, and nothing else; the query of list_storage carries path exactly
\* when it is not empty and source exactly when it is a non-empty string, and
\* nothing else.
C30_QueryParams ==
    /\ last.op = "get_oplog_entries" =>
          /\ Len(calls) = 1
          /\ DOMAIN calls[1].params \subseteq {"after_lsn", "limit", "collection"}
          /\ "after_lsn" \in DOMAIN calls[1].params
          /\ calls[1].params["after_lsn"] = str(last.args.after_lsn)
          /\ "limit" \in DOMAIN calls[1].params <=> last.args.limit > 0
          /\ "limit" \in DOMAIN calls[1].params =>
                calls[1].params["limit"] = str(last.args.limit)
          /\ "collection" \in DOMAIN calls[1].params <=> last.args.collection # ""
          /\ "collection" \in DOMAIN calls[1].params =>
                calls[1].params["collection"] = last.args.collection
    /\ last.op = "list_storage" =>
          /\ Len(calls) = 1
          /\ DOMAIN calls[1].params \subseteq {"path", "source"}
          /\ "path" \in DOMAIN calls[1].params <=> last.args.path # ""
          /\ "path" \in DOMAIN calls[1].params => calls[1].params["path"] = last.args.path
          /\ "source" \in DOMAIN calls[1].params
                <=> (last.args.source # NoStr /\ last.args.source.s # "")
          /\ "source" \in DOMAIN calls[1].params =>
                calls[1].params["source"] = last.args.source.s

\* get_oplog_entries for every collection with a negative limit sent after_lsn
\* alone.
C30_Witness ==
    /\ last.op = "get_oplog_entries"
    /\ last.args.collection = "" /\ last.args.limit = -1 /\ last.args.after_lsn = 2
    /\ calls[1].params = ("after_lsn" :> <<"2">>)

====
